---- MODULE Spec2Model ----
(***************************************************************************)
(* Safe-structure deep-copy library (layers/generated/vk_safe_struct_khr)  *)
(* modelled as a state machine over an explicit heap.                      *)
(*                                                                         *)
(* Pointers are integers: NULL is 0, 1..MaxBlocks are heap allocations     *)
(* made by the library (new / new[]), negative numbers are addresses in    *)
(* the caller's memory (the raw source structures and what they point at). *)
(* A pointer to record j of an instance buffer b is the number b*16 + j    *)
(* (b*16 - j for a buffer in the caller's memory).                         *)
(***************************************************************************)
EXTENDS Integers, Sequences, FiniteSets, TLC

\* ---- bounds of the model
MaxBlocks == 7      \* heap allocations that can exist at once
MaxObj == 2         \* safe-structure instances the caller holds at once
MaxOps == 5         \* operations the caller performs in one run
NumFunc == 2        \* values of enum Func besides Empty
NumStruct == 2      \* values of enum Struct besides Empty
NumField == 2       \* values of enum Field besides Empty
MaxDepth == 2       \* a Location and its chain of prev Locations
MaxEntries == 2     \* Entries of a flat VUID table
MaxLocs == 3        \* Location objects of one chain: a root and the children dot() derives
MaxLimit == 40      \* largest maxComputeSharedMemorySize a device reports, in bytes

\* ---- program constants
NULL == 0
PtrSize == 8        \* sizeof(VkAccelerationStructureInstanceKHR*)
RecSize == 64       \* sizeof(VkAccelerationStructureInstanceKHR)

VARIABLES
    heap,       \* heap[a]: the allocation at address a
    obj,        \* obj[i]: the caller's i-th safe-structure instance
    tab,        \* as_geom_khr_host_alloc: set of [key, ptr, primitiveOffset, primitiveCount]
    srcLive,    \* TRUE while the caller's raw structures are still alive
    fam,        \* the structure type the instances of this run have
    last,       \* ghost: what the last operation was and what it released
    ops,        \* number of operations performed so far
    pc,         \* pc[t]: where thread t stands inside an operation, and its local entry
    vuid,       \* the Location, the VUID tables and the outcome of the last lookup
    locs,       \* Location objects by address, the LocationCapture, the last rendering or read
    test        \* the device limit and the last pipeline a shader test created

vars == <<heap, obj, tab, srcLive, fam, last, ops, pc, vuid, locs, test>>

Addrs == 1..MaxBlocks
Slots == 1..MaxObj

MinOf(S) == CHOOSE x \in S : \A y \in S : x <= y
SetToSeq(S) == CHOOSE s \in [1..Cardinality(S) -> S] : \A i, j \in 1..Cardinality(S) : i < j => s[i] < s[j]
Range(s) == {s[i] : i \in 1..Len(s)}

\* ------------------------------------------------------------------------
\* Memory blocks.  kind: "arr" plain-data array, "link" one structure of an
\* extension chain (vals = <<tag>>, ptrs = <<next>>), "buf" an instance
\* buffer (off = primitiveOffset bytes, ptrs = pointer slots, vals = instance
\* records), "geoms" an array of geometry safe structures (objs), "pparr" an
\* array of pointers to geometry safe structures (ptrs).
\* ------------------------------------------------------------------------
Unused == [st |-> "unused", kind |-> "none", sz |-> 0, off |-> 0, vals |-> <<>>, ptrs |-> <<>>, objs |-> <<>>]
Blk(kind, sz, off, vals, ptrs, objs) ==
    [st |-> "live", kind |-> kind, sz |-> sz, off |-> off, vals |-> vals, ptrs |-> ptrs, objs |-> objs]
Arr(vals) == Blk("arr", Len(vals), 0, vals, <<>>, <<>>)
Link(tag, next) == Blk("link", 1, 0, <<tag>>, <<next>>, <<>>)

\* The caller's memory: what the raw source structures point at.
SrcMem(p) ==
    CASE p = -1 -> Arr(<<5>>)               \* one semaphore / one queue family index
      [] p = -2 -> Arr(<<6, 7>>)            \* two swapchains / two indices
      [] p = -3 -> Arr(<<1, 0>>)            \* two image indices
      [] p = -4 -> Link(21, NULL)           \* extension chain of one structure
      [] p = -5 -> Link(22, -4)             \* extension chain of two structures
      [] p = -6 -> Arr(<<9, 8>>)            \* a two-byte blob / a SECURITY_ATTRIBUTES block
      [] p = -7 -> Arr(<<3>>)               \* a wide-character name string
      [] p = -8 -> Blk("buf", 0 + 2 * RecSize, 0, <<11, 12>>, <<>>, <<>>)          \* flat, K = 0, N = 2
      [] p = -9 -> Blk("buf", 16 + 1 * RecSize, 16, <<13>>, <<>>, <<>>)            \* flat, K = 16, N = 1
      [] p = -10 -> Blk("buf", 0 + 2 * PtrSize, 0, <<>>, <<-11 * 16 - 1, -12 * 16 - 1>>, <<>>) \* pointers, K = 0, N = 2
      [] p = -11 -> Blk("buf", RecSize, 0, <<14>>, <<>>, <<>>)                     \* one record
      [] p = -12 -> Blk("buf", RecSize, 0, <<15>>, <<>>, <<>>)                     \* one record
      [] p = -13 -> Arr(<<4>>)              \* vertex data of a triangles geometry
      [] p = -14 -> Blk("buf", 8 + 1 * PtrSize, 8, <<>>, <<-12 * 16 - 1>>, <<>>)   \* pointers, K = 8, N = 1
      [] OTHER -> Unused

\* ------------------------------------------------------------------------
\* The machine an operation runs on: m = [heap, obj, tab, rel, err, oom, ret].
\* rel lists the addresses released so far, err collects undefined behaviour,
\* oom says the model's heap bound was hit, ret is the last helper's result.
\* ------------------------------------------------------------------------
Rd(m, p) == IF p \in Addrs THEN m.heap[p] ELSE SrcMem(p)
RdErr(m, p) == IF p \in Addrs /\ m.heap[p].st # "live" THEN {"use_after_free"} ELSE {}
Ret(m, v) == [m EXCEPT !.ret = v]

\* new / new[]
New(m, blk) ==
    LET free == {a \in Addrs : m.heap[a].st = "unused"}
    IN IF free = {} THEN [m EXCEPT !.oom = TRUE, !.ret = NULL]
       ELSE LET a == MinOf(free) IN [m EXCEPT !.heap[a] = blk, !.ret = a]

\* delete / delete[]
Delete(m, p) ==
    IF p \notin Addrs THEN [m EXCEPT !.err = @ \cup {"bad_free"}]
    ELSE IF m.heap[p].st = "live" THEN [m EXCEPT !.heap[p].st = "freed", !.rel = Append(@, p)]
    ELSE [m EXCEPT !.err = @ \cup {"double_free"}, !.rel = Append(@, p)]

\* new T[n] followed by an element-wise copy or a memcpy of n elements
CopyArr(m, p, n) ==
    LET s == Rd(m, p).vals
        k == IF n <= Len(s) THEN n ELSE Len(s)
        m1 == New(m, Arr(SubSeq(s, 1, k)))
    IN [m1 EXCEPT !.err = @ \cup RdErr(m, p) \cup (IF n > Len(s) THEN {"overread"} ELSE {})]

\* undefined behaviour met on the way is collected in err
Flag(m, errs) == [m EXCEPT !.err = @ \cup errs]
\* the member f of the instance takes the result of the last helper
StoreRet(m, this, f) == [m EXCEPT !.obj[this][f] = m.ret]
\* if (c) { p = new T[n]; memcpy(...) } with p initialized to nullptr
CopyArrIf(m, c, p, n) == IF c THEN CopyArr(m, p, n) ELSE Ret(m, NULL)

\* one structure of the copy, in front of the copy m.ret of the rest of the chain
LinkAfter(m, tag) == New(m, Link(tag, m.ret))

\* SafePnextCopy: deep copy of an extension chain, one allocation per structure
RECURSIVE SafePnextCopy(_, _)
SafePnextCopy(m, p) ==
    IF p = NULL THEN Ret(m, NULL)
    ELSE IF Rd(m, p).kind # "link" THEN Ret(Flag(m, RdErr(m, p) \cup {"bad_chain"}), NULL)
    ELSE LinkAfter(SafePnextCopy(Flag(m, RdErr(m, p)), Rd(m, p).ptrs[1]), Rd(m, p).vals[1])

\* FreePnextChain: release every structure of a chain
RECURSIVE FreePnextChain(_, _)
FreePnextChain(m, p) ==
    IF p = NULL THEN m
    ELSE IF p \notin Addrs \/ m.heap[p].st # "live" THEN Delete(m, p)
    ELSE Delete(FreePnextChain(m, m.heap[p].ptrs[1]), p)

\* if (p) delete[] p;
DeleteIf(m, p) == IF p # NULL THEN Delete(m, p) ELSE m
\* if (pNext) FreePnextChain(pNext);
FreeChainIf(m, p) == IF p # NULL THEN FreePnextChain(m, p) ELSE m

\* The value a pointer member takes when a constructor does not assign it:
\* the member's default initializer in the structure's declaration.
DeclInit == NULL

Dead == [ty |-> "none"]

\* ------------------------------------------------------------------------
\* safe_VkPresentInfoKHR
\* ------------------------------------------------------------------------
PresentInfo_members(m, this, s) ==
    [m EXCEPT !.obj[this] =
        [ty |-> "Present", sType |-> s.sType, pNext |-> NULL,
         waitSemaphoreCount |-> s.waitSemaphoreCount, pWaitSemaphores |-> NULL,
         swapchainCount |-> s.swapchainCount, pSwapchains |-> NULL,
         pImageIndices |-> NULL, pResults |-> NULL]]

PresentInfo_fill(m, this, s) ==
    StoreRet(CopyArrIf(
    StoreRet(CopyArrIf(
    StoreRet(CopyArrIf(
    StoreRet(CopyArrIf(
    StoreRet(SafePnextCopy(PresentInfo_members(m, this, s), s.pNext), this, "pNext"),
        s.waitSemaphoreCount # 0 /\ s.pWaitSemaphores # NULL, s.pWaitSemaphores, s.waitSemaphoreCount),
        this, "pWaitSemaphores"),
        s.swapchainCount # 0 /\ s.pSwapchains # NULL, s.pSwapchains, s.swapchainCount),
        this, "pSwapchains"),
        s.pImageIndices # NULL, s.pImageIndices, s.swapchainCount),
        this, "pImageIndices"),
        s.pResults # NULL, s.pResults, s.swapchainCount),
        this, "pResults")

PresentInfo_release(m, this) ==
    LET o == m.obj[this]
    IN FreeChainIf(DeleteIf(DeleteIf(DeleteIf(DeleteIf(m, o.pWaitSemaphores), o.pSwapchains),
                                     o.pImageIndices), o.pResults), o.pNext)

PresentInfo_ctor(m, this, in) == PresentInfo_fill(m, this, in)

PresentInfo_default(m, this) ==
    [m EXCEPT !.obj[this] =
        [ty |-> "Present", sType |-> 1, pNext |-> NULL,
         waitSemaphoreCount |-> 0, pWaitSemaphores |-> NULL,
         swapchainCount |-> 0, pSwapchains |-> NULL,
         pImageIndices |-> NULL, pResults |-> NULL]]

PresentInfo_copy(m, this, src) == PresentInfo_fill(m, this, m.obj[src])

PresentInfo_assign_NoGuard(m, this, src) ==
    LET m1 == PresentInfo_release(m, this) IN PresentInfo_fill(m1, this, m1.obj[src])

PresentInfo_assign(m, this, src) ==
    IF src = this THEN m
    ELSE PresentInfo_fill(PresentInfo_release(m, this), this, m.obj[src])

PresentInfo_dtor_Leaky(m, this) ==
    LET o == m.obj[this]
    IN FreeChainIf(DeleteIf(DeleteIf(DeleteIf(m, o.pWaitSemaphores), o.pSwapchains), o.pResults), o.pNext)

PresentInfo_dtor(m, this) == PresentInfo_release(m, this)

PresentInfo_initialize(m, this, in) == PresentInfo_fill(PresentInfo_release(m, this), this, in)

PresentInfo_initialize_copy(m, this, src) == PresentInfo_fill(m, this, m.obj[src])

PresentInfo_raw ==
    { [sType |-> 1, pNext |-> NULL, waitSemaphoreCount |-> 0, pWaitSemaphores |-> NULL,
       swapchainCount |-> 0, pSwapchains |-> NULL, pImageIndices |-> NULL, pResults |-> NULL],
      [sType |-> 1, pNext |-> -4, waitSemaphoreCount |-> 1, pWaitSemaphores |-> -1,
       swapchainCount |-> 2, pSwapchains |-> -2, pImageIndices |-> -3, pResults |-> NULL],
      [sType |-> 1, pNext |-> -5, waitSemaphoreCount |-> 2, pWaitSemaphores |-> NULL,
       swapchainCount |-> 0, pSwapchains |-> NULL, pImageIndices |-> NULL, pResults |-> NULL],
      [sType |-> 1, pNext |-> NULL, waitSemaphoreCount |-> 0, pWaitSemaphores |-> -1,
       swapchainCount |-> 0, pSwapchains |-> NULL, pImageIndices |-> -3, pResults |-> NULL] }

PresentInfo_ptrs(o) == {o.pWaitSemaphores, o.pSwapchains, o.pImageIndices, o.pResults}

\* ------------------------------------------------------------------------
\* safe_VkSwapchainCreateInfoKHR (imageSharingMode: 0 exclusive, 1 concurrent;
\* the remaining scalar members are copied verbatim and stand behind flags)
\* ------------------------------------------------------------------------
VK_SHARING_MODE_CONCURRENT == 1

\* queueFamilyIndexCount is taken over only together with the array
SwapchainCreateInfo_concurrent(s) ==
    (s.imageSharingMode = VK_SHARING_MODE_CONCURRENT) /\ s.pQueueFamilyIndices # NULL

SwapchainCreateInfo_members(m, this, s) ==
    [m EXCEPT !.obj[this] =
        [ty |-> "Swapchain", sType |-> s.sType, pNext |-> NULL, flags |-> s.flags,
         imageSharingMode |-> s.imageSharingMode,
         queueFamilyIndexCount |-> IF SwapchainCreateInfo_concurrent(s) THEN s.queueFamilyIndexCount ELSE 0,
         pQueueFamilyIndices |-> NULL]]

SwapchainCreateInfo_fill(m, this, s) ==
    StoreRet(CopyArrIf(
    StoreRet(SafePnextCopy(SwapchainCreateInfo_members(m, this, s), s.pNext), this, "pNext"),
        SwapchainCreateInfo_concurrent(s), s.pQueueFamilyIndices, s.queueFamilyIndexCount),
        this, "pQueueFamilyIndices")

SwapchainCreateInfo_release(m, this) ==
    FreeChainIf(DeleteIf(m, m.obj[this].pQueueFamilyIndices), m.obj[this].pNext)

SwapchainCreateInfo_ctor(m, this, in) == SwapchainCreateInfo_fill(m, this, in)

SwapchainCreateInfo_default(m, this) ==
    [m EXCEPT !.obj[this] =
        [ty |-> "Swapchain", sType |-> 2, pNext |-> NULL, flags |-> 0, imageSharingMode |-> 0,
         queueFamilyIndexCount |-> 0, pQueueFamilyIndices |-> NULL]]

SwapchainCreateInfo_copy(m, this, src) == SwapchainCreateInfo_fill(m, this, m.obj[src])

SwapchainCreateInfo_assign(m, this, src) ==
    IF src = this THEN m
    ELSE SwapchainCreateInfo_fill(SwapchainCreateInfo_release(m, this), this, m.obj[src])

SwapchainCreateInfo_dtor(m, this) == SwapchainCreateInfo_release(m, this)

SwapchainCreateInfo_initialize(m, this, in) ==
    SwapchainCreateInfo_fill(SwapchainCreateInfo_release(m, this), this, in)

SwapchainCreateInfo_initialize_copy(m, this, src) == SwapchainCreateInfo_fill(m, this, m.obj[src])

SwapchainCreateInfo_raw ==
    { [sType |-> 2, pNext |-> NULL, flags |-> 1, imageSharingMode |-> 1,
       queueFamilyIndexCount |-> 2, pQueueFamilyIndices |-> -2],
      [sType |-> 2, pNext |-> -4, flags |-> 0, imageSharingMode |-> 0,
       queueFamilyIndexCount |-> 1, pQueueFamilyIndices |-> -1],
      [sType |-> 2, pNext |-> -4, flags |-> 0, imageSharingMode |-> 1,
       queueFamilyIndexCount |-> 0, pQueueFamilyIndices |-> NULL] }

SwapchainCreateInfo_ptrs(o) == {o.pQueueFamilyIndices}

\* ------------------------------------------------------------------------
\* safe_VkPipelineExecutableInternalRepresentationKHR (the inline name and
\* description arrays are copied element by element and stand behind name)
\* ------------------------------------------------------------------------
\* if (pData != nullptr) { new std::byte[dataSize]; memcpy(temp, pData, dataSize); pData = temp; }
CopyBlob(m, this, p, n) == IF p # NULL THEN StoreRet(CopyArr(m, p, n), this, "pData") ELSE m

\* keep is the value pData has when the source's pData is null and nothing is stored
InternalRepresentation_members(m, this, s, keep) ==
    [m EXCEPT !.obj[this] =
        [ty |-> "IntRep", sType |-> s.sType, pNext |-> NULL, name |-> s.name,
         isText |-> s.isText, dataSize |-> s.dataSize, pData |-> keep]]

InternalRepresentation_fill(m, this, s, keep) ==
    CopyBlob(StoreRet(SafePnextCopy(InternalRepresentation_members(m, this, s, keep), s.pNext),
                      this, "pNext"),
             this, s.pData, s.dataSize)

InternalRepresentation_release(m, this) ==
    FreeChainIf(DeleteIf(m, m.obj[this].pData), m.obj[this].pNext)

InternalRepresentation_ctor(m, this, in) == InternalRepresentation_fill(m, this, in, NULL)

\* The default constructor's initializer list names sType, pNext, isText, dataSize
\* and pData: the inline arrays name and description are left as they are, and
\* u is the indeterminate value that reads of them give.
Indeterminate == {0, 7}
InternalRepresentation_default(m, this, u) ==
    [m EXCEPT !.obj[this] =
        [ty |-> "IntRep", sType |-> 3, pNext |-> NULL, name |-> u, isText |-> 0,
         dataSize |-> 0, pData |-> NULL]]

InternalRepresentation_copy(m, this, src) == InternalRepresentation_fill(m, this, m.obj[src], DeclInit)

InternalRepresentation_assign(m, this, src) ==
    IF src = this THEN m
    ELSE InternalRepresentation_fill(InternalRepresentation_release(m, this), this, m.obj[src],
                                     m.obj[this].pData)

InternalRepresentation_dtor(m, this) == InternalRepresentation_release(m, this)

InternalRepresentation_initialize(m, this, in) ==
    InternalRepresentation_fill(InternalRepresentation_release(m, this), this, in, m.obj[this].pData)

InternalRepresentation_initialize_copy(m, this, src) ==
    InternalRepresentation_fill(m, this, m.obj[src], m.obj[this].pData)

InternalRepresentation_raw ==
    { [sType |-> 3, pNext |-> NULL, name |-> 1, isText |-> 0, dataSize |-> 0, pData |-> NULL],
      [sType |-> 3, pNext |-> -4, name |-> 2, isText |-> 1, dataSize |-> 2, pData |-> -6] }

InternalRepresentation_ptrs(o) == {o.pData}

\* ------------------------------------------------------------------------
\* safe_VkExportMemoryWin32HandleInfoKHR
\* ------------------------------------------------------------------------
\* new SECURITY_ATTRIBUTES(*p): one block copy of the pointed-at record
CopyBlock(m, p) == CopyArr(m, p, Len(Rd(m, p).vals))

\* name(in_struct->name): the pointer itself is taken over
ExportMemoryWin32HandleInfo_members(m, this, s) ==
    [m EXCEPT !.obj[this] =
        [ty |-> "Win32", sType |-> s.sType, pNext |-> NULL, pAttributes |-> NULL,
         dwAccess |-> s.dwAccess, name |-> s.name]]

CopyBlockIf(m, p) == IF p # NULL THEN CopyBlock(m, p) ELSE Ret(m, NULL)

ExportMemoryWin32HandleInfo_fill(m, this, s) ==
    StoreRet(CopyBlockIf(
    StoreRet(SafePnextCopy(ExportMemoryWin32HandleInfo_members(m, this, s), s.pNext), this, "pNext"),
        s.pAttributes),
        this, "pAttributes")

ExportMemoryWin32HandleInfo_release(m, this) ==
    FreeChainIf(DeleteIf(m, m.obj[this].pAttributes), m.obj[this].pNext)

ExportMemoryWin32HandleInfo_ctor(m, this, in) == ExportMemoryWin32HandleInfo_fill(m, this, in)

ExportMemoryWin32HandleInfo_default(m, this) ==
    [m EXCEPT !.obj[this] =
        [ty |-> "Win32", sType |-> 4, pNext |-> NULL, pAttributes |-> NULL, dwAccess |-> 0,
         name |-> NULL]]

ExportMemoryWin32HandleInfo_copy(m, this, src) == ExportMemoryWin32HandleInfo_fill(m, this, m.obj[src])

ExportMemoryWin32HandleInfo_assign(m, this, src) ==
    IF src = this THEN m
    ELSE ExportMemoryWin32HandleInfo_fill(ExportMemoryWin32HandleInfo_release(m, this), this, m.obj[src])

ExportMemoryWin32HandleInfo_dtor(m, this) == ExportMemoryWin32HandleInfo_release(m, this)

ExportMemoryWin32HandleInfo_initialize(m, this, in) ==
    ExportMemoryWin32HandleInfo_fill(ExportMemoryWin32HandleInfo_release(m, this), this, in)

ExportMemoryWin32HandleInfo_initialize_copy(m, this, src) ==
    ExportMemoryWin32HandleInfo_fill(m, this, m.obj[src])

ExportMemoryWin32HandleInfo_raw ==
    { [sType |-> 4, pNext |-> NULL, pAttributes |-> NULL, dwAccess |-> 1, name |-> NULL],
      [sType |-> 4, pNext |-> -4, pAttributes |-> -6, dwAccess |-> 2, name |-> -7] }

ExportMemoryWin32HandleInfo_ptrs(o) == {o.pAttributes, o.name}

\* ------------------------------------------------------------------------
\* safe_VkVideoPictureResourceInfoKHR, as the member dstPictureResource of
\* safe_VkVideoDecodeInfoKHR.  Its operations take the member's current
\* value and return the new one in ret.
\* ------------------------------------------------------------------------
VideoPictureResourceInfo_default == [sType |-> 6, pNext |-> NULL, codedOffset |-> 0]

\* the member's value in ret, its chain being the one just copied
VideoPictureResourceInfo_value(m, s) ==
    Ret(m, [sType |-> s.sType, pNext |-> m.ret, codedOffset |-> s.codedOffset])

VideoPictureResourceInfo_initialize_copy(m, cur, s) ==
    VideoPictureResourceInfo_value(SafePnextCopy(m, s.pNext), s)

VideoPictureResourceInfo_ctor(m, s) ==
    VideoPictureResourceInfo_value(SafePnextCopy(m, s.pNext), s)

VideoPictureResourceInfo_dtor(m, cur) == FreeChainIf(m, cur.pNext)

VideoPictureResourceInfo_initialize(m, cur, s) ==
    VideoPictureResourceInfo_value(SafePnextCopy(FreeChainIf(m, cur.pNext), s.pNext), s)

\* ------------------------------------------------------------------------
\* safe_VkVideoDecodeInfoKHR (the buffer members are copied verbatim and stand
\* behind flags; the reference-slot members are left out of the model)
\* ------------------------------------------------------------------------
\* the members, with dstPictureResource taking the value the member's operation returned
VideoDecodeInfo_set(m, this, s) ==
    [m EXCEPT !.obj[this] =
        [ty |-> "Video", sType |-> s.sType, pNext |-> NULL, flags |-> s.flags,
         dstPictureResource |-> m.ret]]

VideoDecodeInfo_fill(m, this, s) ==
    StoreRet(SafePnextCopy(VideoDecodeInfo_set(m, this, s), s.pNext), this, "pNext")

VideoDecodeInfo_release(m, this) == FreeChainIf(m, m.obj[this].pNext)

VideoDecodeInfo_ctor(m, this, in) ==
    VideoDecodeInfo_fill(VideoPictureResourceInfo_ctor(m, in.dstPictureResource), this, in)

VideoDecodeInfo_default(m, this) ==
    [m EXCEPT !.obj[this] =
        [ty |-> "Video", sType |-> 5, pNext |-> NULL, flags |-> 0,
         dstPictureResource |-> VideoPictureResourceInfo_default]]

VideoDecodeInfo_copy(m, this, src) ==
    VideoDecodeInfo_fill(
        VideoPictureResourceInfo_initialize_copy(m, VideoPictureResourceInfo_default,
                                                 m.obj[src].dstPictureResource),
        this, m.obj[src])

VideoDecodeInfo_assign(m, this, src) ==
    IF src = this THEN m
    ELSE VideoDecodeInfo_fill(
             VideoPictureResourceInfo_initialize_copy(VideoDecodeInfo_release(m, this),
                                                      m.obj[this].dstPictureResource,
                                                      m.obj[src].dstPictureResource),
             this, m.obj[src])

\* the destructor's body, then the member's destructor
VideoDecodeInfo_dtor(m, this) ==
    VideoPictureResourceInfo_dtor(VideoDecodeInfo_release(m, this), m.obj[this].dstPictureResource)

VideoDecodeInfo_initialize(m, this, in) ==
    VideoDecodeInfo_fill(
        VideoPictureResourceInfo_initialize(VideoDecodeInfo_release(m, this),
                                            m.obj[this].dstPictureResource, in.dstPictureResource),
        this, in)

VideoDecodeInfo_initialize_copy(m, this, src) ==
    VideoDecodeInfo_fill(
        VideoPictureResourceInfo_initialize_copy(m, m.obj[this].dstPictureResource,
                                                 m.obj[src].dstPictureResource),
        this, m.obj[src])

VideoDecodeInfo_raw ==
    { [sType |-> 5, pNext |-> NULL, flags |-> 1,
       dstPictureResource |-> [sType |-> 6, pNext |-> NULL, codedOffset |-> 1]],
      [sType |-> 5, pNext |-> -4, flags |-> 2,
       dstPictureResource |-> [sType |-> 6, pNext |-> -5, codedOffset |-> 2]] }

\* ------------------------------------------------------------------------
\* safe_VkDeviceOrHostAddressConstKHR: a union, deviceAddress and hostAddress
\* are two readings of the same bits
\* ------------------------------------------------------------------------
DeviceOrHostAddressConst_initialize(m, this, in) ==
    [m EXCEPT !.obj[this] = [ty |-> "Addr", hostAddress |-> in.hostAddress]]

DeviceOrHostAddressConst_ctor(m, this, in) == DeviceOrHostAddressConst_initialize(m, this, in)

DeviceOrHostAddressConst_default(m, this) ==
    [m EXCEPT !.obj[this] = [ty |-> "Addr", hostAddress |-> NULL]]

DeviceOrHostAddressConst_copy_HostOnly(m, this, src) ==
    [m EXCEPT !.obj[this] = [ty |-> "Addr", hostAddress |->
        IF m.obj[src].hostAddress < 0 THEN m.obj[src].hostAddress ELSE NULL]]

DeviceOrHostAddressConst_copy(m, this, src) ==
    [m EXCEPT !.obj[this] = [ty |-> "Addr", hostAddress |-> m.obj[src].hostAddress]]

DeviceOrHostAddressConst_assign(m, this, src) ==
    IF src = this THEN m
    ELSE [m EXCEPT !.obj[this] = [ty |-> "Addr", hostAddress |-> m.obj[src].hostAddress]]

DeviceOrHostAddressConst_dtor(m, this) == m

DeviceOrHostAddressConst_initialize_copy(m, this, src) ==
    [m EXCEPT !.obj[this] = [ty |-> "Addr", hostAddress |-> m.obj[src].hostAddress]]

\* a null address, a device address, a host pointer into the caller's memory
DeviceOrHostAddressConst_raw ==
    { [hostAddress |-> NULL], [hostAddress |-> 4096], [hostAddress |-> -13] }

\* ------------------------------------------------------------------------
\* as_geom_khr_host_alloc: the host-allocation side table.  A key is the
\* address of a geometry safe structure: <<0, i>> the caller's i-th instance,
\* <<b, k>> element k of the array in heap block b.  An entry holds the
\* ASGeomKHRExtraData recorded for the key.
\* ------------------------------------------------------------------------
TabFind(t, key) == {e \in t : e.key = key}

\* insert: the map keeps an entry already stored under the key
TabInsert(m, key, ptr, primOffset, primCount) ==
    IF TabFind(m.tab, key) # {} THEN m
    ELSE [m EXCEPT !.tab = @ \cup {[key |-> key, ptr |-> ptr, primitiveOffset |-> primOffset,
                                    primitiveCount |-> primCount]}]

ExtraData_dtor_Leaky(m, e) == m

\* ~ASGeomKHRExtraData: if (ptr) delete[] ptr;
ExtraData_dtor(m, e) == DeleteIf(m, e.ptr)

TabPop(m, key) == [m EXCEPT !.tab = @ \ TabFind(m.tab, key)]

\* auto iter = pop(this); if (iter != end()) delete iter->second;
PopAndDelete(m, key) ==
    LET es == TabFind(m.tab, key)
    IN IF es = {} THEN m
       ELSE ExtraData_dtor(TabPop(m, key), CHOOSE e \in es : TRUE)

\* ------------------------------------------------------------------------
\* safe_VkAccelerationStructureGeometryKHR.  geometry is the raw union
\* VkAccelerationStructureGeometryDataKHR in its instances reading:
\* arrayOfPointers (the word the triangles reading calls vertexFormat) and
\* data.hostAddress (the bits the triangles reading calls vertexData).
\* ------------------------------------------------------------------------
VK_GEOMETRY_TYPE_INSTANCES_KHR == 2
Tmp == <<0, MaxObj + 1>>        \* where a temporary geometry lives

GetG(m, loc) == IF loc[1] = 0 THEN m.obj[loc[2]] ELSE m.heap[loc[1]].objs[loc[2]]
SetG(m, loc, g) ==
    IF loc[1] = 0 THEN [m EXCEPT !.obj[loc[2]] = g] ELSE [m EXCEPT !.heap[loc[1]].objs[loc[2]] = g]

RecPtr(b, j) == IF b < 0 THEN b * 16 - j ELSE b * 16 + j
RecBlk(rp) == IF rp < 0 THEN -((-rp) \div 16) ELSE rp \div 16
RecIdx(rp) == IF rp < 0 THEN (-rp) % 16 ELSE rp % 16
RecOk(m, rp) ==
    LET b == RecBlk(rp)
    IN /\ b < 0 \/ b \in Addrs
       /\ Rd(m, b).kind = "buf"
       /\ RecIdx(rp) \in 1..Len(Rd(m, b).vals)
DerefRec(m, rp) == IF RecOk(m, rp) THEN Rd(m, RecBlk(rp)).vals[RecIdx(rp)] ELSE 0
IsMem(p) == p < 0 \/ p \in Addrs

\* The array-of-pointers branch: allocation of K + N*sizeof(ptr) + N*sizeof(record)
\* bytes; record i is what slot i of the buffer at p (at byte offset K) points
\* at, and slot i of the new buffer points at record i of the new buffer.
SelfPoint(m, N) ==
    IF m.ret = NULL THEN m ELSE [m EXCEPT !.heap[m.ret].ptrs = [i \in 1..N |-> RecPtr(m.ret, i)]]

BuildPointerArray_Shallow(m, p, K, N) ==
    LET ok == IsMem(p) /\ Rd(m, p).kind = "buf" /\ Rd(m, p).off = K /\ Len(Rd(m, p).ptrs) >= N
        slots == IF ok THEN SubSeq(Rd(m, p).ptrs, 1, N) ELSE [i \in 1..N |-> 0]
    IN New(m, Blk("buf", K + N * PtrSize + N * RecSize, K,
                  [i \in 1..N |-> DerefRec(m, slots[i])], slots, <<>>))

BuildPointerArray(m, p, K, N) ==
    LET ok == IsMem(p) /\ Rd(m, p).kind = "buf" /\ Rd(m, p).off = K /\ Len(Rd(m, p).ptrs) >= N
        slots == IF ok THEN SubSeq(Rd(m, p).ptrs, 1, N) ELSE [i \in 1..N |-> 0]
        errs == (IF IsMem(p) THEN RdErr(m, p) ELSE {})
                \cup (IF ok /\ \A i \in 1..N : RecOk(m, slots[i]) THEN {} ELSE {"wild_read"})
    IN SelfPoint(New(Flag(m, errs),
                     Blk("buf", K + N * PtrSize + N * RecSize, K,
                         [i \in 1..N |-> DerefRec(m, slots[i])], <<>>, <<>>)),
                 N)

BuildFlat_NoOffset(m, p, K, N) ==
    LET ok == IsMem(p) /\ Rd(m, p).kind = "buf" /\ Rd(m, p).ptrs = <<>> /\ Len(Rd(m, p).vals) >= N
        recs == IF ok THEN SubSeq(Rd(m, p).vals, 1, N) ELSE [i \in 1..N |-> 0]
    IN New(m, Blk("buf", N * RecSize, 0, recs, <<>>, <<>>))

\* The flat branch of a conversion: allocation of K + N*sizeof(record) bytes and
\* memcpy(allocation + K, host_address + K, N*sizeof(record))
BuildFlat(m, p, K, N) ==
    LET ok == IsMem(p) /\ Rd(m, p).kind = "buf" /\ Rd(m, p).off = K /\ Rd(m, p).ptrs = <<>>
              /\ Len(Rd(m, p).vals) >= N
        recs == IF ok THEN SubSeq(Rd(m, p).vals, 1, N) ELSE [i \in 1..N |-> 0]
        m1 == New(m, Blk("buf", K + N * RecSize, K, recs, <<>>, <<>>))
    IN [m1 EXCEPT !.err = @ \cup (IF ok THEN {} ELSE {"wild_read"})]

\* The flat branch of a copy: memcpy(allocation, src_alloc->ptr, K + N*sizeof(record))
CopyFlat(m, p, K, N) ==
    LET b == Rd(m, p)
        ok == b.kind = "buf" /\ b.off = K /\ b.ptrs = <<>> /\ Len(b.vals) = N
        recs == IF ok THEN b.vals ELSE [i \in 1..N |-> 0]
        m1 == New(m, Blk("buf", K + N * RecSize, K, recs, <<>>, <<>>))
    IN [m1 EXCEPT !.err = @ \cup RdErr(m, p)
                            \cup (IF ok THEN {} ELSE {"type_confusion"})
                            \cup (IF K + N * RecSize > b.sz THEN {"overread"} ELSE {})]

Geometry_fields(s, pNext) ==
    [ty |-> "Geom", sType |-> s.sType, pNext |-> pNext, geometryType |-> s.geometryType,
     geometry |-> s.geometry, flags |-> s.flags]

HostInstances(x, is_host) == is_host /\ x.geometryType = VK_GEOMETRY_TYPE_INSTANCES_KHR

\* if (is_host && geometryType == VK_GEOMETRY_TYPE_INSTANCES_KHR) { ... }, up to the insert
\* geometry.instances.data.hostAddress = allocation
SetHost(m, this) == SetG(m, this, [GetG(m, this) EXCEPT !.geometry.hostAddress = m.ret])
\* pNext = SafePnextCopy(...)
SetPNext(m, this) == SetG(m, this, [GetG(m, this) EXCEPT !.pNext = m.ret])

Geometry_hostAlloc(m, this, in, is_host, range) ==
    IF HostInstances(GetG(m, this), is_host)
    THEN SetHost(IF GetG(m, this).geometry.arrayOfPointers # 0
                 THEN BuildPointerArray(m, in.geometry.hostAddress,
                                        range.primitiveOffset, range.primitiveCount)
                 ELSE BuildFlat(m, in.geometry.hostAddress,
                                range.primitiveOffset, range.primitiveCount),
                 this)
    ELSE Ret(m, NULL)

\* auto &src_alloc = src_iter->second; ..., up to the insert
Geometry_copyAlloc(m, this, e) ==
    SetHost(IF GetG(m, this).geometry.arrayOfPointers # 0
            THEN BuildPointerArray(m, e.ptr, e.primitiveOffset, e.primitiveCount)
            ELSE CopyFlat(m, e.ptr, e.primitiveOffset, e.primitiveCount),
            this)

\* as_geom_khr_host_alloc.insert(this, new ASGeomKHRExtraData(allocation, K, N))
Geometry_record(m, this, K, N) == TabInsert(m, this, m.ret, K, N)

Geometry_hostBuild(m, this, in, is_host, range) ==
    IF HostInstances(GetG(m, this), is_host)
    THEN Geometry_record(Geometry_hostAlloc(m, this, in, is_host, range), this,
                         range.primitiveOffset, range.primitiveCount)
    ELSE m

\* auto src_iter = find(&copy_src); if (src_iter != end()) { ... }
Geometry_rebuildFrom(m, this, e) ==
    Geometry_record(Geometry_copyAlloc(m, this, e), this, e.primitiveOffset, e.primitiveCount)

Geometry_rebuild(m, this, src) ==
    IF TabFind(m.tab, src) = {} THEN m
    ELSE Geometry_rebuildFrom(m, this, CHOOSE x \in TabFind(m.tab, src) : TRUE)

\* the members and the chain, before the instance data is looked at
Geometry_ctorFields(m, this, in) ==
    SetPNext(SafePnextCopy(SetG(m, this, Geometry_fields(in, NULL)), in.pNext), this)

Geometry_ctor(m, this, in, is_host, range) ==
    Geometry_hostBuild(Geometry_ctorFields(m, this, in), this, in, is_host, range)

Geometry_defaultValue ==
    [ty |-> "Geom", sType |-> 7, pNext |-> NULL, geometryType |-> 0,
     geometry |-> [arrayOfPointers |-> 0, hostAddress |-> NULL], flags |-> 0]

Geometry_default(m, this) == SetG(m, this, Geometry_defaultValue)

\* the members and the chain of a source that is a safe structure
Geometry_copyFields(m, this, src) == Geometry_ctorFields(m, this, GetG(m, src))

\* the entry recorded for this instance and the instance's chain
Geometry_release(m, this) == FreeChainIf(PopAndDelete(m, this), GetG(m, this).pNext)

Geometry_copy(m, this, src) ==
    Geometry_rebuild(Geometry_copyFields(m, this, src), this, src)

Geometry_assign(m, this, src) ==
    IF src = this THEN m
    ELSE Geometry_rebuild(Geometry_copyFields(Geometry_release(m, this), this, src), this, src)

Geometry_dtor(m, this) == Geometry_release(m, this)

Geometry_initialize(m, this, in, is_host, range) ==
    Geometry_hostBuild(Geometry_ctorFields(Geometry_release(m, this), this, in), this, in,
                       is_host, range)

\* initialize(copy_src) neither pops the entry nor releases the chain
Geometry_initialize_copy(m, this, src) ==
    Geometry_rebuild(Geometry_copyFields(m, this, src), this, src)

\* raw geometries with the is_host and build_range_info arguments of a conversion
RawGeom(gt, aop, addr, pNext) ==
    [sType |-> 7, pNext |-> pNext, geometryType |-> gt,
     geometry |-> [arrayOfPointers |-> aop, hostAddress |-> addr], flags |-> 1]
GeomIn(s, is_host, K, N) ==
    [s |-> s, is_host |-> is_host, range |-> [primitiveOffset |-> K, primitiveCount |-> N]]

Geometry_raw ==
    { GeomIn(RawGeom(0, 5, 4096, NULL), FALSE, 0, 2),       \* triangles, device build
      GeomIn(RawGeom(0, 5, -13, -4), TRUE, 0, 2),           \* triangles, host build
      GeomIn(RawGeom(2, 0, -8, -4), TRUE, 0, 2),            \* instances, host, flat
      GeomIn(RawGeom(2, 0, -9, NULL), TRUE, 16, 1),         \* instances, host, flat, offset 16
      GeomIn(RawGeom(2, 1, -10, NULL), TRUE, 0, 2),         \* instances, host, pointers
      GeomIn(RawGeom(2, 1, -14, NULL), TRUE, 8, 1) }        \* instances, host, pointers, offset 8

\* ------------------------------------------------------------------------
\* safe_VkAccelerationStructureBuildGeometryInfoKHR (type, flags, mode and the
\* two acceleration-structure handles are copied verbatim and stand behind
\* flags).  A conversion's input is the raw structure s, the raw geometries
\* elems that s.pGeometries or s.ppGeometries leads to, is_host and
\* build_range_infos.
\* ------------------------------------------------------------------------
BuildGeometryInfo_fields(s, pNext, pG, ppG) ==
    [ty |-> "BuildGeom", sType |-> s.sType, pNext |-> pNext, flags |-> s.flags,
     geometryCount |-> s.geometryCount, pGeometries |-> pG, ppGeometries |-> ppG,
     scratchData |-> s.scratchData]

\* new safe_VkAccelerationStructureGeometryKHR[n]
NewGeomArray(m, n) == New(m, Blk("geoms", n, 0, <<>>, <<>>, [i \in 1..n |-> Geometry_defaultValue]))
\* new safe_VkAccelerationStructureGeometryKHR *[n]
NewPtrArray(m, n) == New(m, Blk("pparr", n, 0, <<>>, [i \in 1..n |-> NULL], <<>>))

\* for (i) pGeometries[i] = safe_VkAccelerationStructureGeometryKHR(&in->pGeometries[i], is_host, &ranges[i]);
RECURSIVE BuildGeometryInfo_convFlat(_, _, _, _)
DropTmp_NoDestructor(m) == SetG(m, Tmp, Dead)

\* the temporary's destructor at the end of the full expression
DropTmp(m) == SetG(Geometry_dtor(m, Tmp), Tmp, Dead)

BuildGeometryInfo_convFlat(m, arr, in, i) ==
    IF arr = NULL \/ i > in.s.geometryCount THEN m
    ELSE BuildGeometryInfo_convFlat(
             DropTmp(Geometry_assign(
                 Geometry_ctor(m, Tmp, in.elems[i], in.is_host, in.ranges[i]), <<arr, i>>, Tmp)),
             arr, in, i + 1)

\* for (i) ppGeometries[i] = new safe_VkAccelerationStructureGeometryKHR(in->ppGeometries[i], is_host, &ranges[i]);
RECURSIVE BuildGeometryInfo_convPtrs(_, _, _, _)
\* ppGeometries[i] = the structure just allocated
SetSlot(m, arr, i, b) == [m EXCEPT !.heap[arr].ptrs[i] = b]

BuildGeometryInfo_convPtrs(m, arr, in, i) ==
    LET Elem(m1) ==
            IF m1.ret = NULL THEN m1
            ELSE BuildGeometryInfo_convPtrs(
                     SetSlot(Geometry_ctor(m1, <<m1.ret, 1>>, in.elems[i], in.is_host, in.ranges[i]),
                             arr, i, m1.ret),
                     arr, in, i + 1)
    IN IF arr = NULL \/ i > in.s.geometryCount THEN m ELSE Elem(NewGeomArray(m, 1))

\* for (i) pGeometries[i] = safe_VkAccelerationStructureGeometryKHR(copy_src.pGeometries[i]);
RECURSIVE BuildGeometryInfo_copyFlat(_, _, _, _, _)
BuildGeometryInfo_copyFlat(m, arr, srcArr, n, i) ==
    IF arr = NULL \/ i > n THEN m
    ELSE BuildGeometryInfo_copyFlat(
             DropTmp(Geometry_assign(Geometry_copy(m, Tmp, <<srcArr, i>>), <<arr, i>>, Tmp)),
             arr, srcArr, n, i + 1)

\* for (i) ppGeometries[i] = new safe_VkAccelerationStructureGeometryKHR(*copy_src.ppGeometries[i]);
RECURSIVE BuildGeometryInfo_copyPtrs(_, _, _, _, _)
BuildGeometryInfo_copyPtrs(m, arr, srcArr, n, i) ==
    LET Elem(m1) ==
            IF m1.ret = NULL THEN m1
            ELSE BuildGeometryInfo_copyPtrs(
                     SetSlot(Geometry_copy(m1, <<m1.ret, 1>>, <<m.heap[srcArr].ptrs[i], 1>>),
                             arr, i, m1.ret),
                     arr, srcArr, n, i + 1)
    IN IF arr = NULL \/ i > n THEN m ELSE Elem(NewGeomArray(m, 1))

\* delete[] pGeometries: the elements' destructors, last element first, then the array
RECURSIVE DestroyElems(_, _, _)
DestroyElems(m, arr, i) ==
    IF i = 0 THEN m ELSE DestroyElems(Geometry_dtor(m, <<arr, i>>), arr, i - 1)
DeleteGeomArray(m, arr) ==
    IF arr \notin Addrs \/ m.heap[arr].st # "live" THEN Delete(m, arr)
    ELSE Delete(DestroyElems(m, arr, Len(m.heap[arr].objs)), arr)

\* for (i < geometryCount) delete ppGeometries[i];
RECURSIVE DeletePointees(_, _, _, _)
DeletePointees(m, arr, n, i) ==
    IF i > n THEN m
    ELSE IF arr \notin Addrs \/ i > Len(m.heap[arr].ptrs)
         THEN [m EXCEPT !.err = @ \cup {"wild_read"}]
    ELSE DeletePointees(DeleteGeomArray([m EXCEPT !.err = @ \cup RdErr(m, arr)], m.heap[arr].ptrs[i]),
                        arr, n, i + 1)

BuildGeometryInfo_release_ArrayOnly(m, this) ==
    FreeChainIf(IF m.obj[this].ppGeometries # NULL
                THEN Delete(m, m.obj[this].ppGeometries)
                ELSE IF m.obj[this].pGeometries # NULL
                THEN DeleteGeomArray(m, m.obj[this].pGeometries)
                ELSE m,
                m.obj[this].pNext)

\* if (ppGeometries) {...; delete[] ppGeometries;} else if (pGeometries) delete[] pGeometries;
\* if (pNext) FreePnextChain(pNext);
BuildGeometryInfo_release(m, this) ==
    FreeChainIf(IF m.obj[this].ppGeometries # NULL
                THEN Delete(DeletePointees(m, m.obj[this].ppGeometries, m.obj[this].geometryCount, 1),
                            m.obj[this].ppGeometries)
                ELSE IF m.obj[this].pGeometries # NULL
                THEN DeleteGeomArray(m, m.obj[this].pGeometries)
                ELSE m,
                m.obj[this].pNext)

\* if (geometryCount) { if (in_struct->ppGeometries) {...} else {...} }
\* the array the members point at: ppGeometries if the source has one, else pGeometries
BuildGeometryInfo_array(m, s) ==
    IF s.geometryCount = 0 THEN Ret(m, NULL)
    ELSE IF s.ppGeometries # NULL THEN NewPtrArray(m, s.geometryCount)
    ELSE NewGeomArray(m, s.geometryCount)

BuildGeometryInfo_members(m, this, s, pNext) ==
    [m EXCEPT !.obj[this] =
        BuildGeometryInfo_fields(s, pNext, IF s.ppGeometries # NULL THEN NULL ELSE m.ret,
                                 IF s.ppGeometries # NULL THEN m.ret ELSE NULL)]

BuildGeometryInfo_convElems(m, in) ==
    IF in.s.geometryCount = 0 THEN m
    ELSE IF in.s.ppGeometries # NULL THEN BuildGeometryInfo_convPtrs(m, m.ret, in, 1)
    ELSE BuildGeometryInfo_convFlat(m, m.ret, in, 1)

BuildGeometryInfo_convert(m, this, in, pNext) ==
    BuildGeometryInfo_convElems(
        BuildGeometryInfo_members(BuildGeometryInfo_array(m, in.s), this, in.s, pNext), in)

\* if (geometryCount) { if (copy_src.ppGeometries) {...} else {...} }
BuildGeometryInfo_copyElems(m, s) ==
    IF s.geometryCount = 0 THEN m
    ELSE IF s.ppGeometries # NULL
    THEN BuildGeometryInfo_copyPtrs(m, m.ret, s.ppGeometries, s.geometryCount, 1)
    ELSE BuildGeometryInfo_copyFlat(m, m.ret, s.pGeometries, s.geometryCount, 1)

BuildGeometryInfo_duplicate(m, this, s, pNext) ==
    BuildGeometryInfo_copyElems(
        BuildGeometryInfo_members(BuildGeometryInfo_array(m, s), this, s, pNext), s)

\* pNext = SafePnextCopy(in_struct->pNext), then the geometries
BuildGeometryInfo_convertAfterChain(m, this, in) == BuildGeometryInfo_convert(m, this, in, m.ret)

BuildGeometryInfo_ctor(m, this, in) ==
    BuildGeometryInfo_convertAfterChain(SafePnextCopy(m, in.s.pNext), this, in)

BuildGeometryInfo_default(m, this) ==
    [m EXCEPT !.obj[this] =
        [ty |-> "BuildGeom", sType |-> 8, pNext |-> NULL, flags |-> 0, geometryCount |-> 0,
         pGeometries |-> NULL, ppGeometries |-> NULL, scratchData |-> NULL]]

\* the copy constructor does not assign pNext
BuildGeometryInfo_copy(m, this, src) == BuildGeometryInfo_duplicate(m, this, m.obj[src], DeclInit)

\* operator= releases pNext and does not assign it
BuildGeometryInfo_assign(m, this, src) ==
    IF src = this THEN m
    ELSE BuildGeometryInfo_duplicate(BuildGeometryInfo_release(m, this), this, m.obj[src],
                                     m.obj[this].pNext)

BuildGeometryInfo_dtor(m, this) == BuildGeometryInfo_release(m, this)

BuildGeometryInfo_initialize(m, this, in) ==
    BuildGeometryInfo_convertAfterChain(
        SafePnextCopy(BuildGeometryInfo_release(m, this), in.s.pNext), this, in)

\* initialize(copy_src) releases nothing and does not assign pNext
BuildGeometryInfo_initialize_copy(m, this, src) ==
    BuildGeometryInfo_duplicate(m, this, m.obj[src], m.obj[this].pNext)

RawBuild(pNext, n, pG, ppG) ==
    [sType |-> 8, pNext |-> pNext, flags |-> 1, geometryCount |-> n, pGeometries |-> pG,
     ppGeometries |-> ppG, scratchData |-> 4096]
BuildIn(s, elems, is_host, ranges) == [s |-> s, elems |-> elems, is_host |-> is_host, ranges |-> ranges]
RangeOf(K, N) == [primitiveOffset |-> K, primitiveCount |-> N]

BuildGeometryInfo_raw ==
    { BuildIn(RawBuild(NULL, 0, NULL, NULL), <<>>, FALSE, <<>>),
      BuildIn(RawBuild(-4, 1, -20, NULL), <<RawGeom(2, 0, -9, NULL)>>, TRUE, <<RangeOf(16, 1)>>),
      BuildIn(RawBuild(NULL, 1, NULL, -21), <<RawGeom(2, 1, -10, NULL)>>, TRUE, <<RangeOf(0, 2)>>),
      BuildIn(RawBuild(NULL, 1, -20, -21), <<RawGeom(0, 5, 4096, NULL)>>, FALSE, <<RangeOf(0, 1)>>),
      BuildIn(RawBuild(NULL, 2, -20, NULL), <<RawGeom(2, 0, -8, NULL), RawGeom(0, 5, 4096, NULL)>>,
              TRUE, <<RangeOf(0, 2), RangeOf(0, 1)>>) }

\* ------------------------------------------------------------------------
\* The operations by structure type
\* ------------------------------------------------------------------------
Fams == {"Present", "Swapchain", "IntRep", "Win32", "Video", "Addr", "Geom", "BuildGeom"}

RawInputs(f) ==
    CASE f = "Present" -> PresentInfo_raw
      [] f = "Swapchain" -> SwapchainCreateInfo_raw
      [] f = "IntRep" -> InternalRepresentation_raw
      [] f = "Win32" -> ExportMemoryWin32HandleInfo_raw
      [] f = "Video" -> VideoDecodeInfo_raw
      [] f = "Addr" -> DeviceOrHostAddressConst_raw
      [] f = "Geom" -> Geometry_raw
      [] f = "BuildGeom" -> BuildGeometryInfo_raw

Ctor(f, m, i, in) ==
    CASE f = "Present" -> PresentInfo_ctor(m, i, in)
      [] f = "Swapchain" -> SwapchainCreateInfo_ctor(m, i, in)
      [] f = "IntRep" -> InternalRepresentation_ctor(m, i, in)
      [] f = "Win32" -> ExportMemoryWin32HandleInfo_ctor(m, i, in)
      [] f = "Video" -> VideoDecodeInfo_ctor(m, i, in)
      [] f = "Addr" -> DeviceOrHostAddressConst_ctor(m, i, in)
      [] f = "Geom" -> Geometry_ctor(m, <<0, i>>, in.s, in.is_host, in.range)
      [] f = "BuildGeom" -> BuildGeometryInfo_ctor(m, i, in)

DefaultCtor(f, m, i, u) ==
    CASE f = "Present" -> PresentInfo_default(m, i)
      [] f = "Swapchain" -> SwapchainCreateInfo_default(m, i)
      [] f = "IntRep" -> InternalRepresentation_default(m, i, u)
      [] f = "Win32" -> ExportMemoryWin32HandleInfo_default(m, i)
      [] f = "Video" -> VideoDecodeInfo_default(m, i)
      [] f = "Addr" -> DeviceOrHostAddressConst_default(m, i)
      [] f = "Geom" -> Geometry_default(m, <<0, i>>)
      [] f = "BuildGeom" -> BuildGeometryInfo_default(m, i)

CopyCtor(f, m, i, j) ==
    CASE f = "Present" -> PresentInfo_copy(m, i, j)
      [] f = "Swapchain" -> SwapchainCreateInfo_copy(m, i, j)
      [] f = "IntRep" -> InternalRepresentation_copy(m, i, j)
      [] f = "Win32" -> ExportMemoryWin32HandleInfo_copy(m, i, j)
      [] f = "Video" -> VideoDecodeInfo_copy(m, i, j)
      [] f = "Addr" -> DeviceOrHostAddressConst_copy(m, i, j)
      [] f = "Geom" -> Geometry_copy(m, <<0, i>>, <<0, j>>)
      [] f = "BuildGeom" -> BuildGeometryInfo_copy(m, i, j)

AssignOp(f, m, i, j) ==
    CASE f = "Present" -> PresentInfo_assign(m, i, j)
      [] f = "Swapchain" -> SwapchainCreateInfo_assign(m, i, j)
      [] f = "IntRep" -> InternalRepresentation_assign(m, i, j)
      [] f = "Win32" -> ExportMemoryWin32HandleInfo_assign(m, i, j)
      [] f = "Video" -> VideoDecodeInfo_assign(m, i, j)
      [] f = "Addr" -> DeviceOrHostAddressConst_assign(m, i, j)
      [] f = "Geom" -> Geometry_assign(m, <<0, i>>, <<0, j>>)
      [] f = "BuildGeom" -> BuildGeometryInfo_assign(m, i, j)

Dtor(f, m, i) ==
    CASE f = "Present" -> PresentInfo_dtor(m, i)
      [] f = "Swapchain" -> SwapchainCreateInfo_dtor(m, i)
      [] f = "IntRep" -> InternalRepresentation_dtor(m, i)
      [] f = "Win32" -> ExportMemoryWin32HandleInfo_dtor(m, i)
      [] f = "Video" -> VideoDecodeInfo_dtor(m, i)
      [] f = "Addr" -> DeviceOrHostAddressConst_dtor(m, i)
      [] f = "Geom" -> Geometry_dtor(m, <<0, i>>)
      [] f = "BuildGeom" -> BuildGeometryInfo_dtor(m, i)

InitRaw(f, m, i, in) ==
    CASE f = "Present" -> PresentInfo_initialize(m, i, in)
      [] f = "Swapchain" -> SwapchainCreateInfo_initialize(m, i, in)
      [] f = "IntRep" -> InternalRepresentation_initialize(m, i, in)
      [] f = "Win32" -> ExportMemoryWin32HandleInfo_initialize(m, i, in)
      [] f = "Video" -> VideoDecodeInfo_initialize(m, i, in)
      [] f = "Addr" -> DeviceOrHostAddressConst_initialize(m, i, in)
      [] f = "Geom" -> Geometry_initialize(m, <<0, i>>, in.s, in.is_host, in.range)
      [] f = "BuildGeom" -> BuildGeometryInfo_initialize(m, i, in)

InitCopy(f, m, i, j) ==
    CASE f = "Present" -> PresentInfo_initialize_copy(m, i, j)
      [] f = "Swapchain" -> SwapchainCreateInfo_initialize_copy(m, i, j)
      [] f = "IntRep" -> InternalRepresentation_initialize_copy(m, i, j)
      [] f = "Win32" -> ExportMemoryWin32HandleInfo_initialize_copy(m, i, j)
      [] f = "Video" -> VideoDecodeInfo_initialize_copy(m, i, j)
      [] f = "Addr" -> DeviceOrHostAddressConst_initialize_copy(m, i, j)
      [] f = "Geom" -> Geometry_initialize_copy(m, <<0, i>>, <<0, j>>)
      [] f = "BuildGeom" -> BuildGeometryInfo_initialize_copy(m, i, j)

\* ------------------------------------------------------------------------
\* What an instance points at and what it owns
\* ------------------------------------------------------------------------
RECURSIVE ChainSet(_, _)
ChainSet(h, p) ==
    IF p \notin Addrs THEN {}
    ELSE IF h[p].st # "live" \/ h[p].kind # "link" THEN {p}
    ELSE {p} \cup ChainSet(h, h[p].ptrs[1])

\* the pointer members of an instance, chain pointers included
GeomPtrs(g) == {g.pNext, g.geometry.hostAddress}
ElemLocs(h, o) ==
    IF o.ppGeometries \in Addrs
    THEN {<<h[o.ppGeometries].ptrs[k], 1>> : k \in 1..Len(h[o.ppGeometries].ptrs)}
    ELSE IF o.pGeometries \in Addrs
    THEN {<<o.pGeometries, k>> : k \in 1..Len(h[o.pGeometries].objs)}
    ELSE {}
ElemOk(h, loc) == loc[1] \in Addrs /\ loc[2] \in 1..Len(h[loc[1]].objs)
ObjPtrs(h, o) ==
    CASE o.ty = "none" -> {}
      [] o.ty = "Present" -> PresentInfo_ptrs(o) \cup {o.pNext}
      [] o.ty = "Swapchain" -> SwapchainCreateInfo_ptrs(o) \cup {o.pNext}
      [] o.ty = "IntRep" -> InternalRepresentation_ptrs(o) \cup {o.pNext}
      [] o.ty = "Win32" -> ExportMemoryWin32HandleInfo_ptrs(o) \cup {o.pNext}
      [] o.ty = "Video" -> {o.pNext, o.dstPictureResource.pNext}
      [] o.ty = "Addr" -> {o.hostAddress}
      [] o.ty = "Geom" -> GeomPtrs(o)
      [] o.ty = "BuildGeom" ->
            {o.pNext, o.pGeometries, o.ppGeometries, o.scratchData}
            \cup UNION {IF ElemOk(h, l) THEN {l[1]} \cup GeomPtrs(h[l[1]].objs[l[2]]) ELSE {l[1]}
                        : l \in ElemLocs(h, o)}

GeomOwned(h, t, loc, g) == ChainSet(h, g.pNext) \cup {e.ptr : e \in TabFind(t, loc)}
Owned(h, t, i, o) ==
    CASE o.ty = "none" -> {}
      [] o.ty = "Present" -> (PresentInfo_ptrs(o) \cap Addrs) \cup ChainSet(h, o.pNext)
      [] o.ty = "Swapchain" -> (SwapchainCreateInfo_ptrs(o) \cap Addrs) \cup ChainSet(h, o.pNext)
      [] o.ty = "IntRep" -> (InternalRepresentation_ptrs(o) \cap Addrs) \cup ChainSet(h, o.pNext)
      [] o.ty = "Win32" -> ({o.pAttributes} \cap Addrs) \cup ChainSet(h, o.pNext)
      [] o.ty = "Video" -> ChainSet(h, o.pNext) \cup ChainSet(h, o.dstPictureResource.pNext)
      [] o.ty = "Addr" -> {}
      [] o.ty = "Geom" -> GeomOwned(h, t, <<0, i>>, o)
      [] o.ty = "BuildGeom" ->
            ChainSet(h, o.pNext) \cup ({o.pGeometries, o.ppGeometries} \cap Addrs)
            \cup UNION {IF ElemOk(h, l) THEN {l[1]} \cup GeomOwned(h, t, l, h[l[1]].objs[l[2]]) ELSE {l[1]}
                        : l \in ElemLocs(h, o)}

\* the populated geometry list of a build-info: its array and what its elements own
GeomListArray(o) ==
    IF o.ty # "BuildGeom" THEN NULL
    ELSE IF o.ppGeometries # NULL THEN o.ppGeometries ELSE o.pGeometries
GeomListOwned(h, t, o) ==
    IF o.ty # "BuildGeom" THEN {}
    ELSE ({o.pGeometries, o.ppGeometries} \cap Addrs)
         \cup UNION {IF ElemOk(h, l) THEN {l[1]} \cup GeomOwned(h, t, l, h[l[1]].objs[l[2]]) ELSE {l[1]}
                     : l \in ElemLocs(h, o)}

\* every address some pointer of the state still holds
BlkRefs(b) ==
    IF b.st # "live" THEN {}
    ELSE (IF b.kind = "buf" THEN {RecBlk(p) : p \in Range(b.ptrs)} ELSE Range(b.ptrs))
         \cup UNION {GeomPtrs(b.objs[k]) : k \in 1..Len(b.objs)}
AllRefs(m) ==
    UNION {ObjPtrs(m.heap, m.obj[i]) : i \in DOMAIN m.obj}
    \cup UNION {BlkRefs(m.heap[a]) : a \in Addrs}
    \cup {e.ptr : e \in m.tab}
    \cup {e.key[1] : e \in m.tab}

\* A released block that no pointer holds any more is handed back to the allocator.
Sweep(m) ==
    LET refs == AllRefs(m)
    IN [a \in Addrs |-> IF m.heap[a].st = "freed" /\ a \notin refs THEN Unused ELSE m.heap[a]]

\* live allocations that nothing owns any more
OwnedAll == UNION {Owned(heap, tab, i, obj[i]) : i \in Slots}
Leaked == {a \in Addrs : heap[a].st = "live" /\ a \notin OwnedAll}

\* ------------------------------------------------------------------------
\* What a reader sees through a structure: every member, with each pointer
\* replaced by what it points at (<<-1>> behind a null pointer, <<-2>> behind
\* a pointer into released memory).  sl says whether the caller's memory is
\* still alive.  The same operators read a raw structure and a safe copy.
\* ------------------------------------------------------------------------
Readable(h, sl, p) == IF p < 0 THEN sl /\ SrcMem(p).st = "live" ELSE p \in Addrs /\ h[p].st = "live"
At(h, p) == IF p \in Addrs THEN h[p] ELSE SrcMem(p)

ArrView(h, sl, p) ==
    IF p = NULL THEN <<-1>> ELSE IF Readable(h, sl, p) THEN At(h, p).vals ELSE <<-2>>

RECURSIVE ChainView(_, _, _)
ChainView(h, sl, p) ==
    IF p = NULL THEN <<>>
    ELSE IF ~Readable(h, sl, p) \/ At(h, p).kind # "link" THEN <<-2>>
    ELSE <<At(h, p).vals[1]>> \o ChainView(h, sl, At(h, p).ptrs[1])

RecView(h, sl, rp) ==
    LET b == RecBlk(rp)
    IN IF Readable(h, sl, b) /\ At(h, b).kind = "buf" /\ RecIdx(rp) \in 1..Len(At(h, b).vals)
       THEN At(h, b).vals[RecIdx(rp)] ELSE -2

\* the instance records of an instance buffer, read through its pointer slots if it has any
BufView(h, sl, p) ==
    IF p = NULL THEN [off |-> 0, recs |-> <<-1>>]
    ELSE IF ~Readable(h, sl, p) \/ At(h, p).kind # "buf" THEN [off |-> 0, recs |-> <<-2>>]
    ELSE LET b == At(h, p)
         IN [off |-> b.off,
             recs |-> IF b.ptrs = <<>> THEN b.vals
                      ELSE [k \in 1..Len(b.ptrs) |-> RecView(h, sl, b.ptrs[k])]]

PresentView(h, sl, x) ==
    [sType |-> x.sType, chain |-> ChainView(h, sl, x.pNext),
     waitSemaphoreCount |-> x.waitSemaphoreCount, wait |-> ArrView(h, sl, x.pWaitSemaphores),
     swapchainCount |-> x.swapchainCount, swapchains |-> ArrView(h, sl, x.pSwapchains),
     indices |-> ArrView(h, sl, x.pImageIndices), results |-> ArrView(h, sl, x.pResults)]

SwapchainView(h, sl, x) ==
    [sType |-> x.sType, chain |-> ChainView(h, sl, x.pNext), flags |-> x.flags,
     imageSharingMode |-> x.imageSharingMode, queueFamilyIndexCount |-> x.queueFamilyIndexCount,
     indices |-> ArrView(h, sl, x.pQueueFamilyIndices)]

InternalRepresentationView(h, sl, x) ==
    [sType |-> x.sType, chain |-> ChainView(h, sl, x.pNext), name |-> x.name, isText |-> x.isText,
     dataSize |-> x.dataSize, data |-> ArrView(h, sl, x.pData)]

Win32View(h, sl, x) ==
    [sType |-> x.sType, chain |-> ChainView(h, sl, x.pNext), dwAccess |-> x.dwAccess,
     attributes |-> ArrView(h, sl, x.pAttributes), name |-> ArrView(h, sl, x.name)]

VideoView(h, sl, x) ==
    [sType |-> x.sType, chain |-> ChainView(h, sl, x.pNext), flags |-> x.flags,
     dst |-> [sType |-> x.dstPictureResource.sType,
              chain |-> ChainView(h, sl, x.dstPictureResource.pNext),
              codedOffset |-> x.dstPictureResource.codedOffset]]

\* the union is read as the bits it holds
AddrView(h, sl, x) == [bits |-> x.hostAddress]

\* host says the structure holds host instance data: its address is then read through
GeomView(h, sl, x, host) ==
    [sType |-> x.sType, chain |-> ChainView(h, sl, x.pNext), geometryType |-> x.geometryType,
     arrayOfPointers |-> x.geometry.arrayOfPointers, flags |-> x.flags,
     data |-> IF host THEN BufView(h, sl, x.geometry.hostAddress)
              ELSE [off |-> 0, recs |-> <<x.geometry.hostAddress>>]]

BuildGeomView(h, sl, x, elems) ==
    [sType |-> x.sType, chain |-> ChainView(h, sl, x.pNext), flags |-> x.flags,
     geometryCount |-> x.geometryCount, scratchData |-> x.scratchData, elems |-> elems]

\* the geometries of a safe build-info, in order
ElemSeq(h, o) ==
    IF o.ppGeometries \in Addrs /\ h[o.ppGeometries].st = "live"
    THEN [k \in 1..Len(h[o.ppGeometries].ptrs) |-> <<h[o.ppGeometries].ptrs[k], 1>>]
    ELSE IF o.pGeometries \in Addrs /\ h[o.pGeometries].st = "live"
    THEN [k \in 1..Len(h[o.pGeometries].objs) |-> <<o.pGeometries, k>>]
    ELSE <<>>

\* a safe copy, as read back
View(h, sl, t, i, o) ==
    CASE o.ty = "Present" -> PresentView(h, sl, o)
      [] o.ty = "Swapchain" -> SwapchainView(h, sl, o)
      [] o.ty = "IntRep" -> InternalRepresentationView(h, sl, o)
      [] o.ty = "Win32" -> Win32View(h, sl, o)
      [] o.ty = "Video" -> VideoView(h, sl, o)
      [] o.ty = "Addr" -> AddrView(h, sl, o)
      [] o.ty = "Geom" -> GeomView(h, sl, o, TabFind(t, <<0, i>>) # {})
      [] o.ty = "BuildGeom" ->
            BuildGeomView(h, sl, o,
                [k \in 1..Len(ElemSeq(h, o)) |->
                    LET l == ElemSeq(h, o)[k]
                    IN IF ElemOk(h, l) /\ h[l[1]].st = "live"
                       THEN GeomView(h, sl, h[l[1]].objs[l[2]], TabFind(t, l) # {})
                       ELSE GeomView(h, sl, Geometry_defaultValue, FALSE)])
      [] OTHER -> [sType |-> -1]

\* a raw structure while the caller's memory is alive
RawView(f, in) ==
    LET h == [a \in Addrs |-> Unused]
    IN CASE f = "Present" -> PresentView(h, TRUE, in)
         [] f = "Swapchain" -> SwapchainView(h, TRUE, in)
         [] f = "IntRep" -> InternalRepresentationView(h, TRUE, in)
         [] f = "Win32" -> Win32View(h, TRUE, in)
         [] f = "Video" -> VideoView(h, TRUE, in)
         [] f = "Addr" -> AddrView(h, TRUE, in)
         [] f = "Geom" -> GeomView(h, TRUE, in.s, HostInstances(in.s, in.is_host))
         [] f = "BuildGeom" ->
               BuildGeomView(h, TRUE, in.s,
                   [k \in 1..Len(in.elems) |->
                       GeomView(h, TRUE, in.elems[k], HostInstances(in.elems[k], in.is_host))])

\* ------------------------------------------------------------------------
\* The state machine
\* ------------------------------------------------------------------------
Mach == [heap |-> heap, obj |-> obj, tab |-> tab, rel |-> <<>>, err |-> {}, oom |-> FALSE, ret |-> NULL]
Live(i) == obj[i].ty # "none"
NoOp == [op |-> "none", dst |-> 0, src |-> 0, in |-> <<>>, rel |-> <<>>, err |-> {}, owned |-> {},
         prev |-> "none", prevDst |-> 0, geoms |-> {}, arr |-> NULL]

NoEntry == [key |-> <<0, 0>>, ptr |-> NULL, primitiveOffset |-> 0, primitiveCount |-> 0]
Idle == [at |-> "idle", e |-> NoEntry]

NoCall == [call |-> "none", key |-> 0, assert_ok |-> TRUE, ret |-> "", how |-> <<>>, matched |-> FALSE]
NoLookup == [loc |-> <<>>, table |-> <<>>, map |-> <<>>, out |-> NoCall]
NoRead == [call |-> "none", at |-> 0, text |-> <<>>, val |-> <<>>, ub |-> FALSE,
           arg |-> [p |-> 0, s |-> 0, f |-> 0, opt |-> <<>>]]
NoLocs == [store |-> <<>>, cap |-> <<>>, gone |-> {}, snap |-> <<>>, out |-> NoRead]
NoTest == [limit |-> 0, name |-> "none", type |-> "", count |-> 0, usage |-> 0, errors |-> 0]

Init ==
    /\ heap = [a \in Addrs |-> Unused]
    /\ obj = [i \in 1..(MaxObj + 1) |-> Dead]
    /\ tab = {}
    /\ srcLive = TRUE
    /\ fam \in Fams
    /\ last = NoOp
    /\ ops = 0
    /\ pc = [t \in Slots |-> Idle]
    /\ vuid = NoLookup
    /\ locs = NoLocs
    /\ test = NoTest

Commit(r, op, i, j, in) ==
    /\ ~r.oom
    /\ ops < MaxOps
    /\ ops' = ops + 1
    /\ heap' = Sweep(r)
    /\ obj' = r.obj
    /\ tab' = r.tab
    /\ last' = [op |-> op, dst |-> i, src |-> j, rel |-> r.rel, err |-> r.err,
                owned |-> Owned(heap, tab, i, obj[i]), in |-> in,
                prev |-> last.op, prevDst |-> last.dst,
                geoms |-> GeomListOwned(heap, tab, obj[i]), arr |-> GeomListArray(obj[i])]
    /\ UNCHANGED <<srcLive, fam, pc, vuid, locs, test>>

\* a new instance takes the caller's first free variable
FirstFree(i) == ~Live(i) /\ \A k \in 1..(i - 1) : Live(k)

Construct(i, in) ==
    /\ FirstFree(i) /\ srcLive
    /\ Commit(Ctor(fam, Mach, i, in), "construct", i, 0, <<in>>)

DefaultConstruct(i, u) ==
    /\ FirstFree(i)
    /\ Commit(DefaultCtor(fam, Mach, i, u), "default", i, 0, <<>>)

CopyConstruct(i, j) ==
    /\ FirstFree(i) /\ Live(j)
    /\ Commit(CopyCtor(fam, Mach, i, j), "copy", i, j, <<>>)

Assign(i, j) ==
    /\ Live(i) /\ Live(j)
    /\ Commit(AssignOp(fam, Mach, i, j), "assign", i, j, <<>>)

Initialize(i, in) ==
    /\ Live(i) /\ srcLive
    /\ Commit(InitRaw(fam, Mach, i, in), "initialize", i, 0, <<in>>)

InitializeCopy(i, j) ==
    /\ Live(i) /\ Live(j) /\ i # j
    /\ Commit(InitCopy(fam, Mach, i, j), "initialize_copy", i, j, <<>>)

Destroy(i) ==
    /\ Live(i)
    /\ LET r == Dtor(fam, Mach, i)
       IN Commit([r EXCEPT !.obj[i] = Dead], "destroy", i, 0, <<>>)

\* the caller releases (or reuses) the memory of its raw structures
CallerFrees ==
    /\ srcLive
    /\ srcLive' = FALSE
    /\ UNCHANGED <<heap, obj, tab, fam, last, ops, pc, vuid, locs, test>>

Next ==
    \/ \E i \in Slots, in \in RawInputs(fam) : Construct(i, in)
    \/ \E i \in Slots, u \in Indeterminate : DefaultConstruct(i, u)
    \/ \E i, j \in Slots : CopyConstruct(i, j)
    \/ \E i, j \in Slots : Assign(i, j)
    \/ \E i \in Slots, in \in RawInputs(fam) : Initialize(i, in)
    \/ \E i, j \in Slots : InitializeCopy(i, j)
    \/ \E i \in Slots : Destroy(i)
    \/ CallerFrees

Spec == Init /\ [][Next]_vars

\* ------------------------------------------------------------------------
\* Several threads working on geometry instances at once.  Thread t mutates
\* only its own instance obj[t]; every thread may copy from the shared
\* instance Root, which no thread mutates.  One step of a thread holds at
\* most one call of the side table (find, insert, pop): the calls are the
\* points at which threads interleave.
\* ------------------------------------------------------------------------
Root == MaxObj + 1
RootIn == GeomIn(RawGeom(2, 0, -8, -4), TRUE, 0, 2)
HostInputs == {in \in Geometry_raw : in.is_host}

InitConc ==
    /\ \E r \in {Geometry_ctor([heap |-> [a \in Addrs |-> Unused],
                                obj |-> [i \in 1..(MaxObj + 1) |-> Dead],
                                tab |-> {}, rel |-> <<>>, err |-> {}, oom |-> FALSE, ret |-> NULL],
                               <<0, Root>>, RootIn.s, RootIn.is_host, RootIn.range)} :
          heap = r.heap /\ obj = r.obj /\ tab = r.tab
    /\ srcLive = TRUE
    /\ fam = "Geom"
    /\ last = NoOp
    /\ ops = 0
    /\ pc = [t \in Slots |-> Idle]
    /\ vuid = NoLookup
    /\ locs = NoLocs
    /\ test = NoTest

\* one step of thread t: r is the machine after it, at and e its next position
Step(t, r, op, at, e) ==
    /\ ~r.oom
    /\ heap' = Sweep(r)
    /\ obj' = r.obj
    /\ tab' = r.tab
    /\ pc' = [pc EXCEPT ![t] = [at |-> at, e |-> e]]
    /\ last' = [last EXCEPT !.op = op, !.dst = t, !.rel = r.rel, !.err = @ \cup r.err]
    /\ UNCHANGED <<srcLive, fam, vuid, locs, test>>

Begin(t) == pc[t].at = "idle" /\ ops < MaxOps /\ ops' = ops + 1
Pending(this, ptr, range) ==
    [key |-> this, ptr |-> ptr, primitiveOffset |-> range.primitiveOffset,
     primitiveCount |-> range.primitiveCount]

\* safe_VkAccelerationStructureGeometryKHR(in_struct, is_host, build_range_info), up to its insert
T_Construct(t, in) ==
    /\ Begin(t) /\ ~Live(t)
    /\ LET r == Geometry_hostAlloc(Geometry_ctorFields(Mach, <<0, t>>, in.s), <<0, t>>, in.s,
                                   in.is_host, in.range)
       IN IF HostInstances(in.s, in.is_host)
          THEN Step(t, r, "construct", "insert", Pending(<<0, t>>, r.ret, in.range))
          ELSE Step(t, r, "construct", "idle", NoEntry)

\* the copy constructor from Root, up to and including its find
T_CopyFind(t) ==
    /\ Begin(t) /\ ~Live(t)
    /\ LET r == Geometry_ctorFields(Mach, <<0, t>>, obj[Root])
           es == TabFind(tab, <<0, Root>>)
       IN IF es = {} THEN Step(t, r, "copy", "idle", NoEntry)
          ELSE Step(t, r, "copy", "build", CHOOSE e \in es : TRUE)

\* the copy constructor, from the entry it found up to its insert
T_CopyBuild(t) ==
    /\ pc[t].at = "build"
    /\ LET r == Geometry_copyAlloc(Mach, <<0, t>>, pc[t].e)
       IN Step(t, r, "copy", "insert", [pc[t].e EXCEPT !.key = <<0, t>>, !.ptr = r.ret])
    /\ UNCHANGED ops

\* as_geom_khr_host_alloc.insert(this, ...), the last statement of both constructors
T_Insert(t) ==
    /\ pc[t].at = "insert"
    /\ LET e == pc[t].e
       IN Step(t, Geometry_record(Ret(Mach, e.ptr), e.key, e.primitiveOffset, e.primitiveCount),
               last.op, "idle", NoEntry)
    /\ UNCHANGED ops

\* the destructor's pop
T_Pop(t) ==
    /\ Begin(t) /\ Live(t)
    /\ LET es == TabFind(tab, <<0, t>>)
       IN Step(t, TabPop(Mach, <<0, t>>), "destroy", "free",
               IF es = {} THEN NoEntry ELSE CHOOSE e \in es : TRUE)

\* the rest of the destructor: delete iter->second; FreePnextChain(pNext)
T_Free(t) ==
    /\ pc[t].at = "free"
    /\ LET m1 == IF pc[t].e = NoEntry THEN Mach ELSE ExtraData_dtor(Mach, pc[t].e)
           r == FreeChainIf(m1, obj[t].pNext)
       IN Step(t, [r EXCEPT !.obj[t] = Dead], "destroy", "idle", NoEntry)
    /\ UNCHANGED ops

NextConc ==
    \/ \E t \in Slots, in \in HostInputs : T_Construct(t, in)
    \/ \E t \in Slots : T_CopyFind(t)
    \/ \E t \in Slots : T_CopyBuild(t)
    \/ \E t \in Slots : T_Insert(t)
    \/ \E t \in Slots : T_Pop(t)
    \/ \E t \in Slots : T_Free(t)

SpecConc == InitConc /\ [][NextConc]_vars

\* ------------------------------------------------------------------------
\* core_error: Location, Key, Entry and the VUID lookups.  A Location is the
\* sequence of its own frame followed by the frames its prev pointers reach;
\* the index of a frame takes no part in matching and is left out.
\* ------------------------------------------------------------------------
Empty == 0
Funcs == 0..NumFunc
Structs == 0..NumStruct
Fields == 0..NumField
empty == ""

Frame(func, s, f) == [function |-> func, structure |-> s, field |-> f]

\* Location(Func func, Struct s, Field f, uint32_t i)
Location_ctor(func, s, f) == <<Frame(func, s, f)>>
\* Location(Func func, Field f, uint32_t i)
Location_ctorField(func, f) == <<Frame(func, Empty, f)>>
\* Location(const Location& prev_loc, Struct s, Field f, uint32_t i)
Location_ctorPrev(prev_loc, s, f) == <<Frame(prev_loc[1].function, s, f)>> \o prev_loc
\* Location::dot(Struct s, Field sub_field, uint32_t sub_index)
Location_dot(this, s, sub_field) == Location_ctorPrev(this, s, sub_field)
\* Location::dot(Field sub_field, uint32_t sub_index)
Location_dotField(this, sub_field) == Location_ctorPrev(this, this[1].structure, sub_field)

Key_struct_NoRecurse(r, f, recurse) ==
    [function |-> Empty, structure |-> r, field |-> f, recurse_field |-> FALSE]

\* Key(Struct r, Field f, bool recurse)
Key_struct(r, f, recurse) ==
    [function |-> Empty, structure |-> r, field |-> f, recurse_field |-> recurse]

Key_func_AsStruct(fn, f, recurse) ==
    [function |-> Empty, structure |-> fn, field |-> f, recurse_field |-> recurse]

\* Key(Func fn, Field f, bool recurse)
Key_func(fn, f, recurse) ==
    [function |-> fn, structure |-> Empty, field |-> f, recurse_field |-> recurse]

\* bool operator==(const Key& key, const Location& loc): the fuzzy match
Key_eq(key, loc) ==
    /\ key.function = Empty \/ key.function = loc[1].function
    /\ key.structure = Empty \/ key.structure = loc[1].structure
    /\ \/ key.field = Empty
       \/ key.field = loc[1].field
       \/ key.recurse_field /\ \E n \in 2..Len(loc) : loc[n].field = key.field

Entry(k, v) == [k |-> k, v |-> v]

\* std::count_if(table.begin(), table.end(), predicate)
count_if(table, loc) == Cardinality({n \in DOMAIN table : Key_eq(table[n].k, loc)})

\* std::find_if(table.begin(), table.end(), predicate): the position of the
\* first match, Len(table) + 1 for table.end()
RECURSIVE find_from(_, _, _)
find_from(table, loc, n) ==
    IF n > Len(table) THEN n
    ELSE IF Key_eq(table[n].k, loc) THEN n
    ELSE find_from(table, loc, n + 1)
find_if(table, loc) == find_from(table, loc, 1)

\* FindVUID(const Location& loc, const Table& table).  assert_ok is the value
\* of the asserted expression: a build with assertions stops there when it is
\* FALSE, a build without them returns ret.
FindVUID(loc, table) ==
    LET pos == find_if(table, loc)
    IN [assert_ok |-> count_if(table, loc) <= 1,
        ret |-> IF pos # Len(table) + 1 THEN table[pos].v ELSE empty]

FindVUID2_NoFind(key, loc, table) == FindVUID(loc, table[1])

\* FindVUID(OuterKey key, const Location& loc, const Table& table); the outer
\* map is a function from the keys it holds to flat tables
FindVUID2(key, loc, table) ==
    IF key \in DOMAIN table THEN FindVUID(loc, table[key])
    ELSE [assert_ok |-> TRUE, ret |-> empty]

\* the Keys the tables of a run are written with, and the tables: the n-th
\* Entry carries the n-th identifier, and no Key is listed twice
TableKeys ==
    { Key_func(1, Empty, FALSE), Key_func(1, 1, FALSE),
      Key_struct(1, 1, TRUE), Key_struct(2, Empty, FALSE) }
VuidOf(n) == CASE n = 1 -> "VUID-1" [] n = 2 -> "VUID-2" [] OTHER -> "VUID-3"
Tables ==
    UNION { { [n \in 1..len |-> Entry(ks[n], VuidOf(n))] :
                ks \in {q \in [1..len -> TableKeys] : \A a, b \in 1..len : a # b => q[a] # q[b]} } :
            len \in 0..MaxEntries }
InnerTables == { <<Entry(k, VuidOf(3))>> : k \in {Key_func(2, Empty, FALSE), Key_struct(1, 1, TRUE)} }
OuterKeys == 1..2
Maps(t) == { <<t>> } \cup { <<t, u>> : u \in InnerTables }
Locations ==
    { Location_ctor(func, s, f) : func \in Funcs, s \in Structs, f \in Fields }
        \cup { Location_ctorField(func, f) : func \in Funcs, f \in Fields }

Rest ==
    /\ heap = [a \in Addrs |-> Unused]
    /\ obj = [i \in 1..(MaxObj + 1) |-> Dead]
    /\ tab = {}
    /\ srcLive = TRUE
    /\ fam = "none"
    /\ last = NoOp
    /\ ops = 0
    /\ pc = [t \in Slots |-> Idle]
RestUnchanged == UNCHANGED <<heap, obj, tab, srcLive, fam, last, ops, pc>>

InitVUID ==
    /\ Rest
    /\ locs = NoLocs
    /\ test = NoTest
    /\ \E loc \in Locations, t \in Tables : \E m \in Maps(t) :
          vuid = [loc |-> loc, table |-> t, map |-> m, out |-> NoCall]

\* the caller walks down into a structure
V_dot(s, f) ==
    /\ Len(vuid.loc) < MaxDepth
    /\ vuid' = [vuid EXCEPT !.loc = Location_dot(@, s, f), !.out = NoCall]
    /\ RestUnchanged /\ UNCHANGED <<locs, test>>

V_dotField(f) ==
    /\ Len(vuid.loc) < MaxDepth
    /\ vuid' = [vuid EXCEPT !.loc = Location_dotField(@, f), !.out = NoCall]
    /\ RestUnchanged /\ UNCHANGED <<locs, test>>

V_FindVUID ==
    /\ LET r == FindVUID(vuid.loc, vuid.table)
       IN vuid' = [vuid EXCEPT !.out = [NoCall EXCEPT !.call = "flat", !.assert_ok = r.assert_ok,
                                                      !.ret = r.ret]]
    /\ RestUnchanged /\ UNCHANGED <<locs, test>>

V_FindVUID2(key) ==
    /\ LET r == FindVUID2(key, vuid.loc, vuid.map)
       IN vuid' = [vuid EXCEPT !.out = [NoCall EXCEPT !.call = "two_level", !.key = key,
                                                      !.assert_ok = r.assert_ok, !.ret = r.ret]]
    /\ RestUnchanged /\ UNCHANGED <<locs, test>>

NextVUID ==
    \/ \E s \in Structs, f \in Fields : V_dot(s, f)
    \/ \E f \in Fields : V_dotField(f)
    \/ V_FindVUID
    \/ \E key \in OuterKeys : V_FindVUID2(key)

SpecVUID == InitVUID /\ [][NextVUID]_vars

\* one Key, written with either constructor, compared with the Location
InitKey ==
    /\ Rest
    /\ locs = NoLocs
    /\ test = NoTest
    /\ \E loc \in Locations : vuid = [NoLookup EXCEPT !.loc = loc]

V_Match(kind, arg, f, recurse) ==
    /\ LET key == IF kind = "struct" THEN Key_struct(arg, f, recurse) ELSE Key_func(arg, f, recurse)
       IN vuid' = [vuid EXCEPT !.out = [NoCall EXCEPT !.call = "match",
                                                      !.how = <<kind, arg, f, recurse>>,
                                                      !.matched = Key_eq(key, vuid.loc)]]
    /\ RestUnchanged /\ UNCHANGED <<locs, test>>

NextKey ==
    \/ \E s \in Structs, f \in Fields : V_dot(s, f)
    \/ \E f \in Fields : V_dotField(f)
    \/ \E arg \in Structs, f \in Fields, recurse \in BOOLEAN : V_Match("struct", arg, f, recurse)
    \/ \E arg \in Funcs, f \in Fields, recurse \in BOOLEAN : V_Match("func", arg, f, recurse)

SpecKey == InitKey /\ [][NextKey]_vars

\* ------------------------------------------------------------------------
\* Location objects with their addresses: prev is a pointer, and a child
\* refers to its parent, it does not contain it.  locs.store[a] is the
\* Location at address a; the elements of a LocationCapture live at the
\* addresses above CapBase.  A uint32_t is held as its two 16-bit halves.
\* ------------------------------------------------------------------------
CapBase == 100
U32(n) == <<n \div 65536, n % 65536>>
kU32Max == <<65535, 65535>>
kNoIndex == kU32Max
\* an index argument: <<>> when the call leaves it to its default
IndexArg(opt) == IF opt = <<>> THEN kNoIndex ELSE opt[1]

LocationOf(func, s, f, i, prev) ==
    [function |-> func, structure |-> s, field |-> f, index |-> i, prev |-> prev]
LocAt(l, p) == IF p > CapBase THEN l.cap[p - CapBase] ELSE l.store[p]
\* a pointer to a Location whose lifetime has ended
Dangling(l, p) == p \in l.gone

\* Location(Func func, Struct s, Field f, uint32_t i)
Loc_ctor(func, s, f, opt) == LocationOf(func, s, f, IndexArg(opt), NULL)
\* Location(Func func, Field f, uint32_t i)
Loc_ctorField(func, f, opt) == LocationOf(func, Empty, f, IndexArg(opt), NULL)
\* Location(const Location& prev_loc, Struct s, Field f, uint32_t i)
Loc_ctorPrev(l, prev_loc, s, f, i) == LocationOf(LocAt(l, prev_loc).function, s, f, i, prev_loc)
\* Location::dot(Struct s, Field sub_field, uint32_t sub_index)
Loc_dot(l, this, s, sub_field, opt) == Loc_ctorPrev(l, this, s, sub_field, IndexArg(opt))

Loc_dotField_NoStructure(l, this, sub_field, opt) ==
    Loc_ctorPrev(l, this, Empty, sub_field, IndexArg(opt))

\* Location::dot(Field sub_field, uint32_t sub_index)
Loc_dotField(l, this, sub_field, opt) ==
    Loc_ctorPrev(l, this, LocAt(l, this).structure, sub_field, IndexArg(opt))

\* String(Func), String(Field): the names of the enumerators
String_Func(func) ==
    CASE func = 1 -> "vkQueueSubmit" [] func = 2 -> "vkQueueSubmit2" [] func = 3 -> "vkCmdSetEvent"
      [] OTHER -> ""
String_Field(f) ==
    CASE f = 1 -> "oldLayout" [] f = 2 -> "newLayout" [] f = 3 -> "image" [] OTHER -> ""
\* operator<<(uint32_t)
Decimal(i) == ToString(i[1] * 65536 + i[2])

\* Location::AppendFields(std::ostream&): what it writes, one element per <<
Segment(L) ==
    IF L.field = Empty THEN <<>>
    ELSE <<String_Field(L.field)>> \o (IF L.index # kNoIndex THEN <<"[", Decimal(L.index), "]">> ELSE <<>>)
Joined(pre, seg) == IF pre # <<>> /\ seg # <<>> THEN pre \o <<".">> \o seg ELSE pre \o seg
RECURSIVE AppendFields(_, _)
AppendFields(l, this) ==
    Joined(IF LocAt(l, this).prev # NULL THEN AppendFields(l, LocAt(l, this).prev) ELSE <<>>,
           Segment(LocAt(l, this)))

\* Location::Fields()
Location_Fields(l, this) == AppendFields(l, this)

Location_Message_NoSeparator(l, this) ==
    <<String_Func(LocAt(l, this).function)>> \o AppendFields(l, this)

\* Location::Message()
Location_Message(l, this) ==
    <<String_Func(LocAt(l, this).function), "(): ">> \o AppendFields(l, this)

LocFuncs == 1..NumFunc
IndexOpts == { <<>>, <<U32(0)>> }
NoArg == [p |-> NULL, s |-> Empty, f |-> Empty, opt |-> <<>>]
Built(l, L, call, arg) ==
    [l EXCEPT !.store = Append(@, L),
              !.out = [NoRead EXCEPT !.call = call, !.at = Len(l.store) + 1, !.arg = arg]]
LiveLocs == { a \in 1..Len(locs.store) : a \notin locs.gone }

InitLoc ==
    /\ Rest
    /\ vuid = NoLookup
    /\ locs = NoLocs
    /\ test = NoTest
LocUnchanged == RestUnchanged /\ UNCHANGED <<vuid, test>>

L_root(func, s, f, opt) ==
    /\ locs.store = <<>>
    /\ locs' = Built(locs, Loc_ctor(func, s, f, opt), "root", [NoArg EXCEPT !.s = s, !.f = f, !.opt = opt])
    /\ LocUnchanged

L_rootField(func, f, opt) ==
    /\ locs.store = <<>>
    /\ locs' = Built(locs, Loc_ctorField(func, f, opt), "rootField", [NoArg EXCEPT !.f = f, !.opt = opt])
    /\ LocUnchanged

L_dot(p, s, f, opt) ==
    /\ p \in LiveLocs /\ Len(locs.store) < MaxLocs /\ locs.cap = <<>>
    /\ locs' = Built(locs, Loc_dot(locs, p, s, f, opt), "dot", [p |-> p, s |-> s, f |-> f, opt |-> opt])
    /\ LocUnchanged

L_dotField(p, f, opt) ==
    /\ p \in LiveLocs /\ Len(locs.store) < MaxLocs /\ locs.cap = <<>>
    /\ locs' = Built(locs, Loc_dotField(locs, p, f, opt), "dotField",
                     [p |-> p, s |-> Empty, f |-> f, opt |-> opt])
    /\ LocUnchanged

L_Fields(a) ==
    /\ a \in LiveLocs
    /\ locs' = [locs EXCEPT !.out = [NoRead EXCEPT !.call = "Fields", !.at = a,
                                                   !.text = Location_Fields(locs, a)]]
    /\ LocUnchanged

L_Message(a) ==
    /\ a \in LiveLocs
    /\ locs' = [locs EXCEPT !.out = [NoRead EXCEPT !.call = "Message", !.at = a,
                                                   !.text = Location_Message(locs, a)]]
    /\ LocUnchanged

NextLoc ==
    \/ \E func \in LocFuncs, s \in Structs, f \in Fields, opt \in IndexOpts : L_root(func, s, f, opt)
    \/ \E func \in LocFuncs, f \in Fields, opt \in IndexOpts : L_rootField(func, f, opt)
    \/ \E p \in 1..MaxLocs, s \in Structs, f \in Fields, opt \in IndexOpts : L_dot(p, s, f, opt)
    \/ \E p \in 1..MaxLocs, f \in Fields, opt \in IndexOpts : L_dotField(p, f, opt)
    \/ \E a \in 1..MaxLocs : L_Fields(a)
    \/ \E a \in 1..MaxLocs : L_Message(a)

SpecLoc == InitLoc /\ [][NextLoc]_vars

\* ------------------------------------------------------------------------
\* LocationCapture: value copies of a Location and of its ancestors, root
\* first, each copy's prev pointing at the copy before it
\* ------------------------------------------------------------------------
\* LocationCapture::Capture(const Location& loc, size_type depth): the store
\* after loc and its ancestors were copied into it
RECURSIVE LocationCapture_Capture(_, _)
LocationCapture_Capture(l, loc) ==
    LET c == IF LocAt(l, loc).prev # NULL THEN LocationCapture_Capture(l, LocAt(l, loc).prev) ELSE <<>>
    IN Append(c, [LocAt(l, loc) EXCEPT !.prev = IF c = <<>> THEN NULL ELSE CapBase + Len(c)])

\* LocationCapture::LocationCapture(const Location& loc)
LocationCapture_ctor(l, loc) == LocationCapture_Capture(l, loc)

LocationCapture_Get_Front(capture) == CapBase + 1

\* LocationCapture::Get(): capture.back()
LocationCapture_Get(capture) == CapBase + Len(capture)

\* following prev from p: the Locations met, innermost first, each with the
\* address it was read at; n bounds the walk
RECURSIVE ReadChain(_, _, _)
ReadChain(l, p, n) ==
    IF n = 0 \/ Dangling(l, p) THEN <<>>
    ELSE <<[at |-> p, loc |-> [LocAt(l, p) EXCEPT !.prev = NULL]]>>
         \o (IF LocAt(l, p).prev # NULL THEN ReadChain(l, LocAt(l, p).prev, n - 1) ELSE <<>>)
\* the walk reads a Location whose lifetime has ended
RECURSIVE ReadsDangling(_, _, _)
ReadsDangling(l, p, n) ==
    IF n = 0 THEN FALSE
    ELSE Dangling(l, p) \/ (LocAt(l, p).prev # NULL /\ ReadsDangling(l, LocAt(l, p).prev, n - 1))

\* the chains a capture is taken of: a root and up to MaxLocs - 1 dot()s
Chains1 == { <<Loc_ctor(func, s, Empty, <<>>)>> : func \in LocFuncs, s \in {Empty, 1} }
Extend(S) ==
    { Append(st, Loc_dotField([NoLocs EXCEPT !.store = st], Len(st), f, opt)) :
        st \in S, f \in 1..NumField, opt \in IndexOpts }
RECURSIVE ChainsOf(_)
ChainsOf(d) == IF d = 1 THEN Chains1 ELSE Extend(ChainsOf(d - 1))
Chains == UNION { ChainsOf(d) : d \in 1..MaxLocs }

InitCapture ==
    /\ Rest
    /\ vuid = NoLookup
    /\ test = NoTest
    /\ \E st \in Chains : locs = [NoLocs EXCEPT !.store = st]

C_Capture(a) ==
    /\ locs.cap = <<>> /\ a \in LiveLocs
    /\ locs' = [locs EXCEPT !.cap = LocationCapture_ctor(locs, a),
                            !.snap = [k \in 1..a |-> locs.store[k]],
                            !.out = [NoRead EXCEPT !.call = "capture", !.at = a]]
    /\ LocUnchanged

C_Get ==
    /\ locs.cap # <<>>
    /\ locs' = [locs EXCEPT !.out = [NoRead EXCEPT
                    !.call = "Get", !.at = LocationCapture_Get(locs.cap),
                    !.val = ReadChain(locs, LocationCapture_Get(locs.cap), MaxLocs + 1),
                    !.ub = ReadsDangling(locs, LocationCapture_Get(locs.cap), MaxLocs + 1)]]
    /\ LocUnchanged

\* an original Location goes out of scope, innermost first
C_Destroy(a) ==
    /\ locs.cap # <<>> /\ a \in LiveLocs
    /\ \A b \in LiveLocs : locs.store[b].prev # a
    /\ locs' = [locs EXCEPT !.gone = @ \cup {a}, !.out = [NoRead EXCEPT !.call = "destroy", !.at = a]]
    /\ LocUnchanged

\* the caller assigns another Location to an original: *a = *b
C_Overwrite(a, b) ==
    /\ locs.cap # <<>> /\ a \in LiveLocs /\ b \in LiveLocs /\ a # b
    /\ locs' = [locs EXCEPT !.store[a] = locs.store[b],
                            !.out = [NoRead EXCEPT !.call = "overwrite", !.at = a]]
    /\ LocUnchanged

NextCapture ==
    \/ \E a \in 1..MaxLocs : C_Capture(a)
    \/ C_Get
    \/ \E a \in 1..MaxLocs : C_Destroy(a)
    \/ \E a, b \in 1..MaxLocs : C_Overwrite(a, b)

SpecCapture == InitCapture /\ [][NextCapture]_vars

\* ------------------------------------------------------------------------
\* Shader tests: compute shared memory sized from the device limit
\* ------------------------------------------------------------------------
\* limits.maxComputeSharedMemorySize of the device under test
Limits == 0..MaxLimit

max_shared_ints_RoundUp(max_shared_memory_size) == (max_shared_memory_size + 3) \div 4

\* const uint32_t max_shared_ints = max_shared_memory_size / 4
max_shared_ints(max_shared_memory_size) == max_shared_memory_size \div 4

\* const uint32_t max_shared_bools = max_shared_memory_size / 4
max_shared_bools(max_shared_memory_size) == max_shared_memory_size \div 4

\* bytes of workgroup memory of "shared <type> a[count]": an int is 32 bits wide,
\* a Boolean counts as a 32-bit integer
SharedMemoryUsage(type, count) == 4 * count

\* the validator's limit check on pipeline creation: number of errors reported
ValidateSharedMemory(usage, limit) == IF usage > limit THEN 1 ELSE 0

\* pipe.CreateComputePipeline() on a shader that declares shared <type> a[count]
CreateComputePipeline(t, name, type, count) ==
    [t EXCEPT !.name = name, !.type = type, !.count = count,
              !.usage = SharedMemoryUsage(type, count),
              !.errors = ValidateSharedMemory(SharedMemoryUsage(type, count), t.limit)]

InitShader ==
    /\ Rest
    /\ vuid = NoLookup
    /\ locs = NoLocs
    /\ \E limit \in Limits : test = [NoTest EXCEPT !.limit = limit]

ShaderUnchanged == RestUnchanged /\ UNCHANGED <<vuid, locs>>

\* TEST_F(VkPositiveLayerTest, ComputeSharedMemoryAtLimit)
T_ComputeSharedMemoryAtLimit ==
    /\ test' = CreateComputePipeline(test, "ComputeSharedMemoryAtLimit", "int", max_shared_ints(test.limit))
    /\ ShaderUnchanged

\* TEST_F(VkPositiveLayerTest, ComputeSharedMemoryBooleanAtLimit)
T_ComputeSharedMemoryBooleanAtLimit ==
    /\ test' = CreateComputePipeline(test, "ComputeSharedMemoryBooleanAtLimit", "bool", max_shared_bools(test.limit))
    /\ ShaderUnchanged

\* any other compute shader with one shared array
T_CreateComputePipeline(type, count) ==
    /\ test' = CreateComputePipeline(test, "other", type, count)
    /\ ShaderUnchanged

NextShader ==
    \/ T_ComputeSharedMemoryAtLimit
    \/ T_ComputeSharedMemoryBooleanAtLimit
    \/ \E type \in {"int", "bool"}, count \in 0..(MaxLimit \div 4 + 1) : T_CreateComputePipeline(type, count)

SpecShader == InitShader /\ [][NextShader]_vars

\* ------------------------------------------------------------------------
\* Properties
\* ------------------------------------------------------------------------
Dst == obj[last.dst]
OwnedBy(i) == Owned(heap, tab, i, obj[i])
Constructed == last.op = "construct" /\ Live(last.dst)

\* C1: after construction from a raw structure, every pointer the instance
\* exposes refers to memory the instance owns exclusively, never to memory of
\* the source it was built from.
C1_NoSourceAliasing ==
    Constructed =>
        \A p \in ObjPtrs(heap, Dst) :
            IsMem(p) => /\ p \in Addrs
                        /\ p \in OwnedBy(last.dst)
                        /\ \A j \in Slots \ {last.dst} : p \notin OwnedBy(j)

\* C2: a safe copy built from a raw structure reads back equal to the source,
\* member by member, array element by array element, chain link by chain link,
\* and keeps doing so after the caller has released the source.
C2_RoundTrip ==
    Constructed => View(heap, srcLive, tab, last.dst, Dst) = RawView(fam, last.in[1])

\* C3: a copy constructed from a safe copy reads back equal to it (extension
\* chain included) and shares no allocation with it.
C3_CopyOfCopy ==
    (last.op = "copy") =>
        /\ View(heap, srcLive, tab, last.dst, Dst) = View(heap, srcLive, tab, last.src, obj[last.src])
        /\ OwnedBy(last.dst) \cap OwnedBy(last.src) = {}
        /\ \A p \in ObjPtrs(heap, Dst) \cap Addrs : p \notin OwnedBy(last.src)
        /\ last.err = {}

\* C4: destroying an instance right after it was constructed releases exactly
\* the allocations it owned, each exactly once, and nothing else.
FreshDestroy ==
    last.op = "destroy" /\ last.prev \in {"construct", "default"} /\ last.prevDst = last.dst
C4_NoLeakNoDoubleFree ==
    FreshDestroy =>
        /\ last.err = {}
        /\ Range(last.rel) = last.owned
        /\ Len(last.rel) = Cardinality(last.owned)
        /\ \A a \in last.owned : heap[a].st # "live"
C4_Witness == FreshDestroy /\ Cardinality(last.owned) >= 3 /\ Len(last.rel) >= 3

\* C5: reinitialize, from a raw structure or from another safe copy, releases
\* every allocation the instance owned before it takes the new content.
C5_ReinitializeReleases ==
    (last.op \in {"initialize", "initialize_copy"}) =>
        /\ last.owned \subseteq Range(last.rel)
        /\ \A a \in last.owned : heap[a].st # "live"

\* C6: assignment between two distinct instances releases every allocation the
\* target owned, those of its embedded member structures included.
C6_AssignReleasesTarget ==
    (last.op = "assign" /\ last.dst # last.src) =>
        /\ last.owned \subseteq Range(last.rel)
        /\ \A a \in last.owned : heap[a].st # "live"

\* C7: assigning an instance to itself changes no member, no allocation and no
\* side-table entry; nothing is released and nothing is allocated.
SelfAssigned == last.op = "assign" /\ last.dst = last.src
C7_SelfAssignNoOp ==
    [][(last'.op = "assign" /\ last'.dst = last'.src /\ ops' = ops + 1)
        => (heap' = heap /\ obj' = obj /\ tab' = tab /\ last'.rel = <<>> /\ last'.err = {})]_vars
C7_Witness == SelfAssigned /\ Cardinality(OwnedBy(last.dst)) >= 2

\* C8: a side-table entry exists only for a live geometry instance holding the
\* host instance data the entry was recorded for: destroy, reinitialize and
\* reassign remove the target's entry and release its buffer.
KeyLive(key) ==
    IF key[1] = 0 THEN key[2] \in Slots /\ obj[key[2]].ty = "Geom"
    ELSE key[1] \in Addrs /\ heap[key[1]].st = "live" /\ key[2] \in 1..Len(heap[key[1]].objs)
KeyGeom(key) == IF key[1] = 0 THEN obj[key[2]] ELSE heap[key[1]].objs[key[2]]
C8_SideTableLifecycle ==
    \A e \in tab :
        /\ KeyLive(e.key)
        /\ KeyGeom(e.key).geometryType = VK_GEOMETRY_TYPE_INSTANCES_KHR
        /\ KeyGeom(e.key).geometry.hostAddress = e.ptr
        /\ heap[e.ptr].st = "live"

\* C10: a copy constructed from a geometry with a side-table entry {buffer, K, N}
\* gets a new buffer of the same shape with the same N records, pointer slots
\* into its own buffer, its host address at the new buffer and {new buffer, K, N}
\* recorded under its own identity.
C10_CopyRebuildsBuffer ==
    (fam = "Geom" /\ last.op = "copy" /\ TabFind(tab, <<0, last.src>>) # {}) =>
        \A e \in TabFind(tab, <<0, last.src>>) :
            /\ last.err = {}
            /\ TabFind(tab, <<0, last.dst>>) # {}
            /\ \A x \in TabFind(tab, <<0, last.dst>>) :
                /\ x.ptr # e.ptr
                /\ x.primitiveOffset = e.primitiveOffset
                /\ x.primitiveCount = e.primitiveCount
                /\ Dst.geometry.hostAddress = x.ptr
                /\ heap[x.ptr].st = "live" /\ heap[x.ptr].kind = "buf"
                /\ heap[x.ptr].off = e.primitiveOffset
                /\ Len(heap[x.ptr].vals) = e.primitiveCount
                /\ BufView(heap, srcLive, x.ptr) = BufView(heap, srcLive, e.ptr)
                /\ Dst.geometry.arrayOfPointers # 0 =>
                       heap[x.ptr].ptrs = [k \in 1..e.primitiveCount |-> RecPtr(x.ptr, k)]

\* C9: with threads constructing, copying and destroying their own geometry
\* instances at once, no two threads are about to insert under the same key or
\* under a key the table already holds, no buffer is released twice or read after its
\* release, and whenever no operation is under way the table holds exactly one
\* entry per live instance with host instance data, and every live block is
\* owned by a live instance.
Inserting(t) == pc[t].at = "insert"
Quiet == \A t \in Slots : pc[t].at = "idle"
HostData(g) == g.ty = "Geom" /\ g.geometryType = VK_GEOMETRY_TYPE_INSTANCES_KHR
               /\ g.geometry.hostAddress \in Addrs
C9_ConcurrentTable ==
    /\ last.err = {}
    /\ \A t, u \in Slots : (t # u /\ Inserting(t) /\ Inserting(u)) => pc[t].e.key # pc[u].e.key
    /\ \A t \in Slots : Inserting(t) => pc[t].e.key = <<0, t>> /\ TabFind(tab, pc[t].e.key) = {}
    /\ Quiet =>
        /\ \A i \in 1..(MaxObj + 1) :
              HostData(obj[i]) =>
                 \E e \in tab : /\ e.key = <<0, i>> /\ e.ptr = obj[i].geometry.hostAddress
                                /\ heap[e.ptr].st = "live"
                                /\ TabFind(tab, <<0, i>>) = {e}
        /\ \A e \in tab : e.key[1] = 0 /\ HostData(obj[e.key[2]])
        /\ \A a \in Addrs :
              heap[a].st = "live" => \E i \in 1..(MaxObj + 1) : a \in OwnedBy(i)
        /\ \A a \in Addrs : heap[a].st # "freed"
C9_Witness ==
    /\ Quiet /\ last.op = "destroy"
    /\ Cardinality(tab) = 2
    /\ \E t \in Slots : HostData(obj[t]) /\ obj[t].geometry.arrayOfPointers = 0

\* C11: a host-mode conversion of an array-of-pointers instances geometry with
\* primitive offset K and primitive count N yields a buffer of K + N*pointer-size
\* + N*record-size bytes whose N pointer slots at offset K point at N distinct
\* records of the same buffer, behind the slots, and those records equal the
\* records the source's N pointers lead to, in order.
PtrConversion ==
    /\ fam = "Geom" /\ last.op \in {"construct", "initialize"}
    /\ HostInstances(last.in[1].s, last.in[1].is_host)
    /\ last.in[1].s.geometry.arrayOfPointers # 0
C11_PointerArrayLayout ==
    PtrConversion =>
        LET K == last.in[1].range.primitiveOffset
            N == last.in[1].range.primitiveCount
            a == Dst.geometry.hostAddress
            src == SrcMem(last.in[1].s.geometry.hostAddress)
        IN /\ last.err = {}
           /\ a \in Addrs /\ heap[a].st = "live" /\ heap[a].kind = "buf"
           /\ heap[a].sz = K + N * PtrSize + N * RecSize
           /\ heap[a].off = K
           /\ Len(heap[a].ptrs) = N /\ Len(heap[a].vals) = N
           /\ \A i \in 1..N : heap[a].ptrs[i] = RecPtr(a, i)
           /\ \A i, j \in 1..N : i # j => heap[a].ptrs[i] # heap[a].ptrs[j]
           /\ \A i \in 1..N :
                 heap[a].vals[i] = SrcMem(RecBlk(src.ptrs[i])).vals[RecIdx(src.ptrs[i])]
C11_Witness == PtrConversion /\ last.in[1].range.primitiveCount = 2 /\ last.op = "initialize"

\* C12: a host-mode conversion of a flat instances geometry with primitive
\* offset K and primitive count N yields a buffer of K + N*record-size bytes
\* whose N records at offset K equal the source's N records at that offset, and
\* the instance's host address is that buffer.
FlatConversion ==
    /\ fam = "Geom" /\ last.op \in {"construct", "initialize"}
    /\ HostInstances(last.in[1].s, last.in[1].is_host)
    /\ last.in[1].s.geometry.arrayOfPointers = 0
C12_FlatLayout ==
    FlatConversion =>
        LET K == last.in[1].range.primitiveOffset
            N == last.in[1].range.primitiveCount
            a == Dst.geometry.hostAddress
            src == SrcMem(last.in[1].s.geometry.hostAddress)
        IN /\ last.err = {}
           /\ a \in Addrs /\ heap[a].st = "live" /\ heap[a].kind = "buf"
           /\ heap[a].sz = K + N * RecSize
           /\ heap[a].off = K /\ src.off = K
           /\ heap[a].ptrs = <<>>
           /\ heap[a].vals = SubSeq(src.vals, 1, N)
           /\ Len(heap[a].vals) = N
C12_Witness == FlatConversion /\ last.in[1].range.primitiveOffset = 16 /\ last.op = "construct"

\* C13: a build-geometry-info instance never has both geometry lists populated;
\* a copy (copy construction, assignment, reinitialization from a safe copy) is
\* populated in the representation of its source with geometryCount elements;
\* destroy releases every element of the populated list and then its array,
\* each once, and nothing that another instance owns.
Times(s, x) == Cardinality({k \in 1..Len(s) : s[k] = x})
Pos(s, x) == CHOOSE k \in 1..Len(s) : s[k] = x
BuildCopied ==
    /\ fam = "BuildGeom" /\ last.op \in {"copy", "assign", "initialize_copy"}
    /\ last.dst # last.src
BuildDestroyed == fam = "BuildGeom" /\ last.op = "destroy"
C13_OneRepresentation ==
    /\ \A i \in Slots :
          obj[i].ty = "BuildGeom" =>
             /\ ~(obj[i].pGeometries # NULL /\ obj[i].ppGeometries # NULL)
             /\ Len(ElemSeq(heap, obj[i])) = obj[i].geometryCount
    /\ BuildCopied =>
          /\ (Dst.ppGeometries # NULL) = (obj[last.src].ppGeometries # NULL)
          /\ (Dst.pGeometries # NULL) = (obj[last.src].pGeometries # NULL)
          /\ Dst.geometryCount = obj[last.src].geometryCount
          /\ Len(ElemSeq(heap, Dst)) = Dst.geometryCount
          /\ \A l \in ElemLocs(heap, Dst) : ElemOk(heap, l) /\ heap[l[1]].st = "live"
    /\ BuildDestroyed =>
          /\ \A a \in last.geoms : Times(last.rel, a) = 1 /\ heap[a].st # "live"
          /\ \A a \in last.geoms : Pos(last.rel, a) <= Pos(last.rel, last.arr)
          /\ \A j \in Slots : OwnedBy(j) \cap Range(last.rel) = {}
C13_Witness ==
    /\ BuildDestroyed /\ last.prev \in {"copy", "assign"} /\ last.prevDst = last.dst
    /\ Cardinality(last.geoms) >= 3

\* C14: for every (count, pointer) array member, the copy holds a new array of
\* exactly count elements equal to the source's if the source's count is
\* non-zero and its pointer non-null, and a null pointer with nothing allocated
\* otherwise.
ArrayFields(f) ==
    CASE f = "Present" -> {<<"waitSemaphoreCount", "pWaitSemaphores">>, <<"swapchainCount", "pSwapchains">>,
                           <<"swapchainCount", "pImageIndices">>, <<"swapchainCount", "pResults">>}
      [] f = "Swapchain" -> {<<"queueFamilyIndexCount", "pQueueFamilyIndices">>}
      [] OTHER -> {}
ArrayCopied(s, d, cf, pf) ==
    IF s[cf] # 0 /\ s[pf] # NULL
    THEN /\ d[pf] \in Addrs /\ d[pf] # s[pf]
         /\ heap[d[pf]].st = "live"
         /\ Len(heap[d[pf]].vals) = s[cf]
         /\ heap[d[pf]].vals = SubSeq(At(heap, s[pf]).vals, 1, s[cf])
    ELSE d[pf] = NULL
C14_ArrayFieldRule ==
    /\ Constructed => \A x \in ArrayFields(fam) : ArrayCopied(last.in[1], Dst, x[1], x[2])
    /\ last.op = "copy" => \A x \in ArrayFields(fam) : ArrayCopied(obj[last.src], Dst, x[1], x[2])

\* C15: a default-constructed instance has its structure-type tag, every other
\* member zero (inline arrays and nested structures included, every pointer
\* null) and owns no allocation; destroying it releases nothing.
StructureType(f) ==
    CASE f = "Present" -> 1 [] f = "Swapchain" -> 2 [] f = "IntRep" -> 3 [] f = "Win32" -> 4
      [] f = "Video" -> 5 [] f = "Geom" -> 7 [] f = "BuildGeom" -> 8 [] OTHER -> 0
MemberZero(f, v) ==
    CASE f = "dstPictureResource" -> v.sType = 6 /\ v.pNext = NULL /\ v.codedOffset = 0
      [] f = "geometry" -> v.arrayOfPointers = 0 /\ v.hostAddress = NULL
      [] OTHER -> v = 0
DefaultConstructed == last.op = "default" /\ Live(last.dst)
C15_DefaultIsZero ==
    /\ DefaultConstructed =>
          /\ \A f \in DOMAIN Dst \ {"ty", "sType"} : MemberZero(f, Dst[f])
          /\ "sType" \in DOMAIN Dst => Dst.sType = StructureType(fam)
          /\ OwnedBy(last.dst) = {}
          /\ last.rel = <<>> /\ last.err = {}
    /\ (last.op = "destroy" /\ last.prev = "default" /\ last.prevDst = last.dst) =>
          last.rel = <<>> /\ last.err = {}

\* C16: the address union is copied as a raw bit pattern: after construction
\* or reinitialization from a raw union the instance reads back the input's
\* value, after copy-construction, assignment or reinitialization from another
\* instance it reads back the value the source held before the operation, and
\* no operation of the union allocates, owns or releases anything.
AddrFromRaw == fam = "Addr" /\ last.op \in {"construct", "initialize"}
AddrFromCopy == fam = "Addr" /\ last.op \in {"copy", "assign", "initialize_copy"}
C16_UnionCopiedVerbatim ==
    /\ [](AddrFromRaw => Dst.hostAddress = last.in[1].hostAddress)
    /\ [](fam = "Addr" => /\ last.rel = <<>> /\ last.err = {}
                          /\ \A i \in Slots : Live(i) => OwnedBy(i) = {}
                          /\ \A a \in DOMAIN heap : heap[a] = Unused)
    /\ [][AddrFromCopy' => /\ obj'[last'.dst].hostAddress = obj[last'.src].hostAddress
                           /\ obj'[last'.src].hostAddress = obj[last'.src].hostAddress
                           /\ heap' = heap]_vars
C16_Witness ==
    /\ AddrFromCopy /\ last.src # last.dst /\ last.op = "assign"
    /\ Dst.hostAddress = 4096 /\ last.prev = "initialize" /\ last.prevDst = last.src

\* the positions of the Entries of table t whose Key matches the Location
Matching(t) == {n \in DOMAIN t : Key_eq(t[n].k, vuid.loc)}
First(S) == CHOOSE n \in S : \A k \in S : n <= k
FlatCalled == vuid.out.call = "flat"
TwoLevelCalled == vuid.out.call = "two_level"

\* C17: the flat FindVUID returns the string of the Entry whose Key matches the
\* Location, returns the empty string exactly when no Entry's Key matches, and
\* leaves the table and the Location as they were.
C17_FlatLookup ==
    /\ [](FlatCalled =>
            /\ vuid.out.assert_ok
            /\ \A n \in Matching(vuid.table) : vuid.out.ret = vuid.table[n].v
            /\ (vuid.out.ret = empty) <=> (Matching(vuid.table) = {}))
    /\ [][vuid'.out.call = "flat" => vuid'.loc = vuid.loc /\ vuid'.table = vuid.table]_vars

\* C18: whatever the flat table and the Location, at most one Entry's Key
\* matches, so the expression FindVUID asserts is true at every lookup.
C18_AtMostOneMatch ==
    (FlatCalled \/ TwoLevelCalled) =>
        /\ Cardinality(Matching(vuid.table)) <= 1
        /\ \A key \in DOMAIN vuid.map : Cardinality(Matching(vuid.map[key])) <= 1
        /\ vuid.out.assert_ok

\* C19: the two-level FindVUID returns the empty string when the outer table
\* has no entry for the outer key, and otherwise the outcome of the flat lookup
\* of the Location in the inner table the key selects: the string of its
\* first matching Entry, the empty string when it has none.
C19_TwoLevelLookup ==
    TwoLevelCalled =>
        IF vuid.out.key \notin DOMAIN vuid.map
        THEN vuid.out.ret = empty /\ vuid.out.assert_ok
        ELSE LET t == vuid.map[vuid.out.key]
                 M == Matching(t)
             IN /\ vuid.out.ret = IF M = {} THEN empty ELSE t[First(M)].v
                /\ vuid.out.assert_ok <=> Cardinality(M) <= 1
C19_Witness ==
    /\ TwoLevelCalled /\ vuid.out.key = 2 /\ Len(vuid.map) = 2
    /\ vuid.out.ret = "VUID-3" /\ Len(vuid.loc) = 2
    /\ Matching(vuid.table) # {}

\* C20: a Key written with the Empty function or structure and the Empty field
\* matches every Location whose structure is not Empty, whatever the
\* Location's function and structure; a Key written with a function other than
\* Empty matches only Locations of that function, and a Key written with a
\* structure other than Empty only Locations of that structure.
Matched == vuid.out.call = "match"
C20_KeyWildcards ==
    Matched =>
        LET kind == vuid.out.how[1]
            arg == vuid.out.how[2]
            f == vuid.out.how[3]
        IN /\ (arg = Empty /\ f = Empty /\ vuid.loc[1].structure # Empty) => vuid.out.matched
           /\ (vuid.out.matched /\ kind = "func" /\ arg # Empty) => vuid.loc[1].function = arg
           /\ (vuid.out.matched /\ kind = "struct" /\ arg # Empty) => vuid.loc[1].structure = arg
C20_Witness ==
    /\ Matched /\ vuid.out.how[2] = Empty /\ vuid.out.how[3] = Empty /\ vuid.out.matched
    /\ Len(vuid.loc) = 2 /\ vuid.loc[1].structure = 2 /\ vuid.loc[1].function = 1

\* what the last comparison was written with, and what it met
HowKind == vuid.out.how[1]
HowArg == vuid.out.how[2]
HowField == vuid.out.how[3]
HowRecurse == vuid.out.how[4]
OwnField == vuid.loc[1].field
AncestorHas(f) == \E n \in 2..Len(vuid.loc) : vuid.loc[n].field = f
Accepts ==
    \/ HowArg = Empty
    \/ HowKind = "func" /\ vuid.loc[1].function = HowArg
    \/ HowKind = "struct" /\ vuid.loc[1].structure = HowArg

\* C21 as stated: a Key with a field f other than Empty and recurse-field
\* enabled matches a Location whose own field differs from f whenever some
\* ancestor of the Location has field f; with recurse-field not enabled it
\* matches only a Location whose own field is f.
C21_FieldMatching_Stated ==
    (Matched /\ HowField # Empty) =>
        /\ (HowRecurse /\ OwnField # HowField /\ AncestorHas(HowField)) => vuid.out.matched
        /\ (~HowRecurse /\ vuid.out.matched) => OwnField = HowField

\* C21: a Key with a field f other than Empty and recurse-field enabled,
\* whose function and structure are Empty or those of the Location, matches a
\* Location whose own field differs from f whenever some ancestor of the
\* Location has field f; with recurse-field not enabled a Key matches only a
\* Location whose own field is f, whatever the fields of its ancestors.
C21_FieldMatching ==
    (Matched /\ HowField # Empty) =>
        /\ (HowRecurse /\ OwnField # HowField /\ AncestorHas(HowField) /\ Accepts) => vuid.out.matched
        /\ (~HowRecurse /\ vuid.out.matched) => OwnField = HowField
C21_Witness ==
    /\ Matched /\ HowField = 1 /\ HowRecurse /\ HowKind = "struct" /\ HowArg = 2
    /\ OwnField = 2 /\ AncestorHas(1) /\ vuid.out.matched

\* the chain root.dot(structA, fieldA, i).dot(fieldB, j): the Locations at
\* addresses 1, 2 and 3, with named fields at 2 and 3
RootDotDot ==
    /\ Len(locs.store) = 3 /\ locs.store[3].prev = 2 /\ locs.store[2].prev = 1
    /\ locs.store[2].field # Empty /\ locs.store[3].field # Empty
IndexText(L) == IF L.index = kNoIndex THEN <<>> ELSE <<"[", Decimal(L.index), "]">>
PathText ==
    (IF locs.store[1].field = Empty THEN <<>>
     ELSE <<String_Field(locs.store[1].field)>> \o IndexText(locs.store[1]) \o <<".">>)
    \o <<String_Field(locs.store[2].field)>> \o IndexText(locs.store[2])
    \o <<".", String_Field(locs.store[3].field)>> \o IndexText(locs.store[3])

\* C22: for a Location built as root.dot(structA, fieldA, i).dot(fieldB, j) the
\* rendered field path is fieldA[i], a dot, fieldB[j] in that order (after the
\* root's own field, if it names one), an index being written only when it is
\* not the no-index sentinel, and Message() is the name of the operation, then
\* "(): ", then that field path.
C22_Rendering ==
    (RootDotDot /\ locs.out.at = 3) =>
        /\ locs.out.call = "Fields" => locs.out.text = PathText
        /\ locs.out.call = "Message" =>
               locs.out.text = <<String_Func(locs.store[1].function), "(): ">> \o PathText
C22_Witness ==
    /\ RootDotDot /\ locs.out.at = 3 /\ locs.out.call = "Message"
    /\ locs.store[1].field = Empty /\ locs.store[1].structure = 2
    /\ locs.store[2].index = U32(0) /\ locs.store[3].index = kNoIndex
    /\ locs.out.text = <<"vkQueueSubmit2", "(): ", "newLayout", "[", "0", "]", ".", "oldLayout">>

\* the root a parent chain ends in
RECURSIVE RootOf(_, _)
RootOf(l, a) == IF LocAt(l, a).prev = NULL THEN a ELSE RootOf(l, LocAt(l, a).prev)
Dotted == locs.out.call \in {"dot", "dotField"}

\* C23: L.dot(field, index) yields a child with L's operation and structure,
\* the given field and index (kNoIndex, the largest 32-bit unsigned value, when
\* the index is omitted) and L as its parent; L.dot(structure, field, index)
\* takes the given structure instead; neither changes L or any other
\* Location, and every Location carries the operation of the root of its chain.
C23_DotDerivesChild ==
    /\ [][Dotted' =>
            LET arg == locs'.out.arg
                L == locs.store[arg.p]
                child == locs'.store[locs'.out.at]
            IN /\ locs'.out.at = Len(locs.store) + 1
               /\ child.function = L.function
               /\ child.structure = IF locs'.out.call = "dot" THEN arg.s ELSE L.structure
               /\ child.field = arg.f
               /\ child.index = IF arg.opt = <<>> THEN <<65535, 65535>> ELSE arg.opt[1]
               /\ child.prev = arg.p
               /\ \A a \in 1..Len(locs.store) : locs'.store[a] = locs.store[a]]_vars
    /\ [](\A a \in 1..Len(locs.store) :
            locs.store[a].function = locs.store[RootOf(locs, a)].function)
C23_Witness ==
    /\ Dotted /\ locs.out.call = "dotField" /\ locs.out.at = 3 /\ locs.out.arg.p = 2
    /\ locs.out.arg.opt = <<>> /\ locs.store[3].index = kNoIndex
    /\ locs.store[3].structure = 2 /\ locs.store[1].structure = 1 /\ locs.store[3].function = 2

Captured == locs.cap # <<>>
SameValue(x, y) ==
    /\ x.function = y.function /\ x.structure = y.structure
    /\ x.field = y.field /\ x.index = y.index

\* C24: a LocationCapture holds value copies of the Location captured and of
\* each of its ancestors, in nesting order; Get() is the copy of the innermost
\* one; following parent pointers from it meets the copies inside the capture
\* only, one per original, with the values the originals had when captured,
\* whatever happened to the originals since.
C24_CaptureIndependent ==
    Captured =>
        /\ Len(locs.cap) = Len(locs.snap)
        /\ \A k \in 1..Len(locs.cap) :
              /\ SameValue(locs.cap[k], locs.snap[k])
              /\ locs.cap[k].prev = IF k = 1 THEN NULL ELSE CapBase + k - 1
        /\ locs.out.call = "Get" =>
              /\ locs.out.at = CapBase + Len(locs.cap)
              /\ ~locs.out.ub
              /\ Len(locs.out.val) = Len(locs.snap)
              /\ \A k \in 1..Len(locs.out.val) :
                    /\ locs.out.val[k].at = CapBase + Len(locs.snap) + 1 - k
                    /\ SameValue(locs.out.val[k].loc, locs.snap[Len(locs.snap) + 1 - k])
C24_Witness ==
    /\ Captured /\ locs.out.call = "Get" /\ Len(locs.cap) = 3
    /\ 3 \in locs.gone /\ ~SameValue(locs.store[1], locs.snap[1])
    /\ locs.cap[2].index = U32(0)

AtLimitTest == test.name \in {"ComputeSharedMemoryAtLimit", "ComputeSharedMemoryBooleanAtLimit"}

\* C25: a compute pipeline whose shader's shared memory is exactly the device's
\* maxComputeSharedMemorySize is created without a validation error, an error
\* is reported only for usage strictly above the limit, and the two at-limit
\* tests (an array of limit / 4 ints or Booleans) stay within the limit, at it
\* exactly when the limit is a multiple of 4, and report no error.
C25_AtLimitAccepted ==
    test.name # "none" =>
        /\ test.usage = test.limit => test.errors = 0
        /\ test.errors > 0 => test.usage > test.limit
        /\ AtLimitTest =>
              /\ test.errors = 0
              /\ test.usage <= test.limit
              /\ test.limit % 4 = 0 => test.usage = test.limit
C25_Witness ==
    /\ test.name = "ComputeSharedMemoryAtLimit" /\ test.limit >= 16
    /\ test.usage = test.limit /\ test.errors = 0

\* C27: after any sequence of operations no allocation has been released twice
\* and every pointer member of a live instance is null or refers to a live
\* allocation that this instance owns and no other instance owns.
C27_OwnershipSafe ==
    /\ "double_free" \notin last.err
    /\ \A i \in Slots : Live(i) =>
          \A p \in ObjPtrs(heap, obj[i]) :
              IsMem(p) => /\ p \in Addrs
                          /\ heap[p].st = "live"
                          /\ p \in OwnedBy(i)
                          /\ \A j \in Slots \ {i} : p \notin OwnedBy(j)

\* C28: in every reachable state each side-table entry is keyed by a live
\* geometry instance whose host address is the buffer the entry records, and no
\* two entries record the same buffer.
C28_TableMatchesInstances ==
    /\ \A e \in tab :
          /\ KeyLive(e.key)
          /\ KeyGeom(e.key).ty = "Geom"
          /\ KeyGeom(e.key).geometry.hostAddress = e.ptr
    /\ \A e1, e2 \in tab : e1.ptr = e2.ptr => e1.key = e2.key

FlatHostBuild(in) == in.is_host /\ in.s.geometryCount > 0 /\ in.s.ppGeometries = NULL
InstIdx(in) == {k \in 1..in.s.geometryCount : in.elems[k].geometryType = VK_GEOMETRY_TYPE_INSTANCES_KHR}
BuildConstructs ==
    /\ fam = "BuildGeom" /\ ops' = ops + 1 /\ last'.op = "construct"
    /\ FlatHostBuild(last'.in[1])
BuildDestroysNew ==
    /\ fam = "BuildGeom" /\ ops' = ops + 1 /\ last'.op = "destroy"
    /\ last.op = "construct" /\ last.dst = last'.dst /\ FlatHostBuild(last.in[1])

\* C29: a host-mode construction of a build-geometry-info from flat geometries
\* keeps every entry the side table had and adds exactly one entry per
\* instances-type geometry, keyed by the element pGeometries[k] that holds it
\* and recording that element's buffer with the range's offset and count; no
\* entry of a temporary is left and every temporary's buffer is released, once;
\* destroying the instance next removes exactly the entries of its elements
\* and releases their buffers, so the table is what it was before.
C29_BuildTableEntries ==
    [][/\ BuildConstructs =>
            LET in == last'.in[1]
                arr == obj'[last'.dst].pGeometries
                new == tab' \ tab
            IN /\ last'.err = {}
               /\ arr \in Addrs /\ heap'[arr].st = "live"
               /\ tab = {e \in tab' : e.key[1] # arr}
               /\ {e.key : e \in new} = {<<arr, k>> : k \in InstIdx(in)}
               /\ Cardinality(new) = Cardinality(InstIdx(in))
               /\ \A e \in new :
                     /\ heap'[e.ptr].st = "live"
                     /\ heap'[arr].objs[e.key[2]].geometry.hostAddress = e.ptr
                     /\ e.primitiveOffset = in.ranges[e.key[2]].primitiveOffset
                     /\ e.primitiveCount = in.ranges[e.key[2]].primitiveCount
               /\ TabFind(tab', Tmp) = {} /\ obj'[Tmp[2]] = Dead
               /\ Len(last'.rel) = Cardinality(InstIdx(in))
               /\ \A a \in Range(last'.rel) :
                     /\ heap'[a].st # "live" /\ Times(last'.rel, a) = 1
                     /\ \A e \in tab' : e.ptr # a
       /\ BuildDestroysNew =>
            /\ last'.err = {}
            /\ tab' = {e \in tab : e.key[1] # obj[last'.dst].pGeometries}
            /\ \A e \in tab \ tab' : heap'[e.ptr].st # "live"
      ]_vars
C29_Witness ==
    /\ fam = "BuildGeom" /\ last.op = "construct" /\ last.dst = 2
    /\ FlatHostBuild(last.in[1]) /\ last.in[1].s.geometryCount = 2
    /\ Cardinality(tab) >= 2 /\ Len(last.rel) >= 1

CopiesFromSafe ==
    /\ ops' = ops + 1 /\ last'.op \in {"copy", "assign", "initialize_copy"}
    /\ last'.src # last'.dst
\* the side-table entries of instance i and, for a build-geometry-info, of its elements
EntriesOf(h, t, i, o) ==
    TabFind(t, <<0, i>>)
    \cup (IF o.ty = "BuildGeom" THEN UNION {TabFind(t, l) : l \in ElemLocs(h, o)} ELSE {})

\* C30: copy construction, assignment and reinitialization from another safe
\* copy leave the source as it was: the operation releases nothing but live
\* allocations of the target (a block released a second time may by then be the
\* source's), and the source's members, the set of allocations it owns, the
\* content of each of them and its side-table entries are as before.
C30_SourceUnchanged ==
    [][CopiesFromSafe =>
          /\ last'.err \cap {"double_free", "bad_free"} = {}
          /\ obj'[last'.src] = obj[last'.src]
          /\ Owned(heap', tab', last'.src, obj'[last'.src]) = Owned(heap, tab, last'.src, obj[last'.src])
          /\ \A a \in Owned(heap, tab, last'.src, obj[last'.src]) \cap Addrs : heap'[a] = heap[a]
          /\ EntriesOf(heap', tab', last'.src, obj'[last'.src]) = EntriesOf(heap, tab, last'.src, obj[last'.src])
      ]_vars

====
